---- MODULE Spec2Model ----
(***************************************************************************)
(* A model of five parts of koordinates/kart:                              *)
(*   - the kart CLI shim            (src/cli_helper/kart.c),               *)
(*   - the spatial filter extension (src/vendor/spatial-filter/            *)
(*                                   spatial_filter.cpp),                  *)
(*   - the preorder tree walker     (src/libkart/include/kart/             *)
(*                                   tree_walker.hpp),                     *)
(*   - the blob iterator            (src/libkart/src/kart/                 *)
(*                                   blob_iterator.cpp),                   *)
(*   - the native handle wrappers   (src/libkart/src/kart/object.cpp).     *)
(* Each part has its own specification over the shared variables:          *)
(* SpecShim, SpecSession, SpecCodec, SpecPack, SpecOverlap, SpecFilter,    *)
(* SpecWalker, SpecBlobs and SpecObject.                                   *)
(*                                                                         *)
(* Doubles are modelled as exact rationals, so the properties checked of   *)
(* the numeric code are those of its real-number arithmetic.               *)
(***************************************************************************)
EXTENDS Integers, Sequences, FiniteSets, TLC

VARIABLES
    \* ---- the shim process (kart.c) ----
    environ,        \* char **environ: sequence of [key, val]
    argv,           \* char **argv
    fs,             \* what find_kart_cli meets in the file system
    pc,             \* position of main()
    image,          \* the program the shim's pid is running
    exec_argv,      \* argv given to a successful execvp
    exit_code,      \* exit status once pc = "exited"
    killed_by,      \* a signal whose default action ended the process
    pgrp_leader,    \* setpgrp() was called
    nforks,         \* fork() calls made by the shim itself
    socket_fd,      \* socket() was called
    connects,       \* connect() attempts made
    connected,      \* a connect() succeeded
    max_retry,      \* the poll loop's counter
    child,          \* the intermediate child
    grandchild,     \* the grandchild that execs the helper
    helper,         \* whether a helper listens on the session socket
    semid,          \* int semid (global)
    sem,            \* the semaphore set: [exists, val]
    handlers,       \* signal dispositions
    in_usr1,        \* handle_sigusr1 is sleeping on top of main
    usr1_pending,   \* a SIGUSR1 blocked while its handler runs
    msgs,           \* messages sent on the socket
    out,            \* stdout
    pg_signals,     \* signals sent to the process group
    nAlrm,          \* SIGALRM deliveries
    nInt,           \* SIGINT deliveries
    payload,        \* the cJSON payload object; semid is <<>> until the key is added
    helper_environ, \* char **helper_environ
    fds             \* int fds[4]

shimVars == <<environ, argv, fs, pc, image, exec_argv, exit_code, killed_by,
              pgrp_leader, nforks, socket_fd, connects, connected, max_retry,
              child, grandchild, helper, semid, sem, handlers, in_usr1,
              usr1_pending, msgs, out, pg_signals, nAlrm, nInt, payload,
              helper_environ, fds>>

VARIABLES
    \* ---- the range predicates applied to drawn intervals ----
    ov_in,          \* <<a1, a2, b1, b2>> in degrees
    ov_lin,         \* range_overlaps(a, b) and (b, a)
    ov_cyc,         \* cyclic_range_overlaps(a, b) and (b, a)
    ov_calls,       \* the arguments of the calls they made to range_overlaps
    \* ---- the envelope codec applied to drawn boxes ----
    cd_build,       \* how the build treats undefined shifts and assert()
    cd_bits,        \* the constructor's bits_per_value
    cd_box,         \* <<w, s, e, n>> in degrees
    cd_encoder,     \* the EnvelopeEncoder object
    cd_bytes,       \* encode()'s result
    cd_decoded,     \* decode()'s result
    cd_pc,          \* new, constructed, encoded, decoded or aborted
    \* ---- the bit-packing of encode and decode applied to drawn integers ----
    pk_build,       \* how the build treats undefined shifts and assert()
    pk_bits,        \* the constructor's bits_per_value
    pk_quad,        \* <<W, S, E, N>> as uint32_t values
    pk_bytes,       \* the packed bytes
    pk_out,         \* the unpacked <<W, S, E, N>>
    pk_pc           \* new, packed, unpacked or aborted

ovVars == <<ov_in, ov_lin, ov_cyc, ov_calls>>
cdVars == <<cd_build, cd_bits, cd_box, cd_encoder, cd_bytes, cd_decoded, cd_pc>>
pkVars == <<pk_build, pk_bits, pk_quad, pk_bytes, pk_out, pk_pc>>

VARIABLES
    \* ---- the spatial filter extension ----
    sf_env,         \* the build, the sidecar database and its index rows
    sf_arg,         \* filter_arg, as the tokens the stream extraction sees
    sf_pc,          \* start, ready, failed, aborted or freed
    sf_ret,         \* what sf_init returned
    context,        \* the caller's context pointer: unset or ctx
    ctx,            \* struct filter_context
    stmt,           \* the prepared lookup statement, with its calls counted
    omit,           \* the caller's omit flag, with its writes counted
    sf_call,        \* the last per-object call and what it returned
    sf_stderr,      \* lines written to stderr
    sf_clock,       \* getnanotime()
    sf_res,         \* allocations and releases, counted
    \* ---- the tree walker ----
    wk_tree,        \* the root tree: a sequence of entries
    wk_ub,          \* what reading past the end of an empty vector yields
    entries_stack,  \* TreeEntryIterator::entries_stack
    heads,          \* TreeEntryIterator::heads
    wk_out,         \* the (path, type) pairs the walk has yielded
    wk_pc           \* new, at, yielded, done, past_end or crashed

sfVars == <<sf_env, sf_arg, sf_pc, sf_ret, context, ctx, stmt, omit, sf_call,
            sf_stderr, sf_clock, sf_res>>
wkVars == <<wk_tree, wk_ub, entries_stack, heads, wk_out, wk_pc>>

VARIABLES
    \* ---- the shims of one session, lines 291-359 of main() ----
    ss_pc,          \* per shim: connect, fork, wait, poll, connected or timeout
    ss_first,       \* per shim: the outcome of its first connect()
    ss_retry,       \* per shim: max_retry
    ss_forks,       \* per shim: fork() calls it made
    ss_child,       \* per shim: its intermediate child
    ss_grandchild,  \* per shim: its grandchild
    ss_conn,        \* per shim: the helper it is connected to, 0 if none
    ss_listener,    \* the helper listening on the session's socket path, 0 if none
    ss_execs        \* the grandchildren that exec'd a helper

ssVars == <<ss_pc, ss_first, ss_retry, ss_forks, ss_child, ss_grandchild,
            ss_conn, ss_listener, ss_execs>>

VARIABLES
    \* ---- the wrappers of object.hpp over native handles ----
    ob_class,       \* Tree, Blob, Commit, Tag or Object
    ob_live,        \* per wrapper: constructed and not yet destroyed
    ob_wrapped,     \* per wrapper: its wrapped pointer, 0 for nullptr
    ob_moved,       \* per wrapper: it was the source of the last move it took part in
    ob_acquired,    \* the native handles handed out by lookups and git_*_dup
    ob_released,    \* per handle: the git_*_free calls it received
    ob_assigned,    \* an assignment operator has run
    ob_last         \* the last operation, its target and the target's old pointer

obVars == <<ob_class, ob_live, ob_wrapped, ob_moved, ob_acquired, ob_released,
            ob_assigned, ob_last>>

VARIABLES
    \* ---- one BlobIterator over one tree ----
    bi_tree,        \* the tree given to the BlobIterator
    bi_st,          \* entries_stack of its tree_entry_iterator_
    bi_hd,          \* heads of its tree_entry_iterator_
    current_blob,   \* the path of current_blob, "" before the first blob
    bi_out,         \* the blobs the caller's loop has been given
    bi_pc           \* new, at, yielded, done or crashed

biVars == <<bi_tree, bi_st, bi_hd, current_blob, bi_out, bi_pc>>

notShim == <<ovVars, cdVars, pkVars, sfVars, wkVars, ssVars, obVars, biVars>>
notOverlap == <<shimVars, cdVars, pkVars, sfVars, wkVars, ssVars, obVars, biVars>>
notCodec == <<shimVars, ovVars, pkVars, sfVars, wkVars, ssVars, obVars, biVars>>
notPack == <<shimVars, ovVars, cdVars, sfVars, wkVars, ssVars, obVars, biVars>>
notFilter == <<shimVars, ovVars, cdVars, pkVars, wkVars, ssVars, obVars, biVars>>
notWalker == <<shimVars, ovVars, cdVars, pkVars, sfVars, ssVars, obVars, biVars>>
notSession == <<shimVars, ovVars, cdVars, pkVars, sfVars, wkVars, obVars, biVars>>
notObject == <<shimVars, ovVars, cdVars, pkVars, sfVars, wkVars, ssVars, biVars>>
notBlobs == <<shimVars, ovVars, cdVars, pkVars, sfVars, wkVars, ssVars, obVars>>

vars == <<shimVars, ovVars, cdVars, pkVars, sfVars, wkVars, ssVars, obVars, biVars>>

----------------------------------------------------------------------------
(* The shim: src/cli_helper/kart.c                                         *)

SEMNUM == 0
MAX_RETRY == 50
SIGNO == [SIGINT |-> 2, SIGUSR1 |-> 10, SIGALRM |-> 14]

\* The exit codes the helper reports, and the values found in the semaphore:
\* 1000 + code, and values outside that convention up to SEMVMX.
ExitCodes == {0, 1, 42, 255}
SemValues == {1000 + k : k \in ExitCodes} \cup {0, 999, 1256, 32767}

\* The id semget() hands out.
SemIds == {3, 7}

\* getpid()
Pids == {4242}

Environs ==
    { << [key |-> "HOME", val |-> "/home/u"] >>,
      << [key |-> "HOME", val |-> "/home/u"], [key |-> "KART_USE_HELPER", val |-> "0"] >>,
      << [key |-> "HOME", val |-> "/home/u"], [key |-> "KART_USE_HELPER", val |-> ""] >>,
      << [key |-> "HOME", val |-> "/home/u"], [key |-> "KART_USE_HELPER", val |-> "01"] >>,
      << [key |-> "KART_USE_HELPER", val |-> "10"], [key |-> "HOME", val |-> "/home/u"] >>,
      << [key |-> "HOME", val |-> "/home/u"], [key |-> "EMPTY", val |-> ""] >> }

Argvs == { <<"kart", "status">>, <<"kart">> }

\* find_kart_cli's view of the file system: whether the executable's path is
\* found, whether a sibling kart_cli exists next to it, whether realpath()
\* resolves it, and whether a sibling exists next to the resolved path.
FileSystems ==
    { [exe |-> FALSE, sibling |-> FALSE, realpath |-> FALSE, resolved_sibling |-> FALSE],
      [exe |-> TRUE,  sibling |-> TRUE,  realpath |-> TRUE,  resolved_sibling |-> TRUE],
      [exe |-> TRUE,  sibling |-> FALSE, realpath |-> FALSE, resolved_sibling |-> FALSE],
      [exe |-> TRUE,  sibling |-> FALSE, realpath |-> TRUE,  resolved_sibling |-> TRUE],
      [exe |-> TRUE,  sibling |-> FALSE, realpath |-> TRUE,  resolved_sibling |-> FALSE] }

\* getenv(): the value of the first entry with that key, or NULL.
RECURSIVE getenv_from(_, _, _)
getenv_from(env, name, i) ==
    IF i > Len(env) THEN [null |-> TRUE, s |-> ""]
    ELSE IF env[i].key = name THEN [null |-> FALSE, s |-> env[i].val]
    ELSE getenv_from(env, name, i + 1)

getenv(name) == getenv_from(environ, name, 1)

\* *env for a C string: its first character, NUL for the empty string.
FirstChar(s) == IF Len(s) = 0 THEN "NUL" ELSE SubSeq(s, 1, 1)

\* A variant that compares the whole value with "0".
is_helper_enabled_whole_value ==
    LET env == getenv("KART_USE_HELPER")
    IN  env.null \/ env.s # "0"

is_helper_enabled ==
    LET env == getenv("KART_USE_HELPER")
    IN  env.null \/ FirstChar(env.s) # "0"

\* A variant that gives up after the first sibling.
find_kart_cli_no_realpath ==
    /\ fs.exe
    /\ fs.sibling

\* find_kart_cli() returns 0.
find_kart_cli ==
    /\ fs.exe
    /\ \/ fs.sibling
       \/ fs.realpath /\ fs.resolved_sibling

\* The status a parent sees for exit(code).
ExitStatus(code) == code % 256

Alive == pc \notin {"exited", "killed", "execed"}
\* main() makes progress only when no handler is running on top of it.
Running == Alive /\ ~in_usr1

\* What an uninitialised malloc'ed buffer or slot may hold.
Garbage == {"", "<garbage>"}
UNINIT == [key |-> "<uninitialised>", val |-> ""]
\* What such a slot of helper_environ holds when execve() walks the array: a
\* null pointer, which ends the list there, a pointer that cannot be read
\* (EFAULT), or a pointer to some other bytes.
UninitSlots == {"NULL", "EFAULT", "garbage"}
GarbageEntry == [key |-> "<garbage>", val |-> "<garbage>"]

\* The environment loop of main(): sscanf splits each entry at its first '=';
\* an entry with an empty value leaves val as malloc() returned it.
sscanf_val(e, garbage) == IF e.val = "" THEN garbage ELSE e.val

RECURSIVE payload_environ(_, _)
payload_environ(env, garbage) ==
    IF env = <<>> THEN <<>>
    ELSE LET e == Head(env)
             rest == payload_environ(Tail(env), garbage)
         IN  IF e.key # "KART_USE_HELPER"
             THEN <<[key |-> e.key, val |-> sscanf_val(e, garbage)]>> \o rest
             ELSE rest

\* helper_environ = malloc(listSZ * sizeof(char *)): the kept entries first,
\* the slots past `found` as malloc() returned them; the terminating NULL is
\* stored at index listSZ.
filtered_environ_keep_all(env) == env

filtered_environ(env) == SelectSeq(env, LAMBDA e : e.key # "KART_USE_HELPER")

build_helper_environ(env) ==
    LET kept == filtered_environ(env)
    IN  [i \in 1 .. Len(env) |-> IF i <= Len(kept) THEN kept[i] ELSE UNINIT]

socket_filename == getenv("HOME").s \o "/.kart.sid.socket"

ShimInit ==
    /\ environ \in Environs
    /\ argv \in Argvs
    /\ fs \in FileSystems
    /\ helper \in BOOLEAN
    /\ pc = "start"
    /\ image = "kart"
    /\ exec_argv = <<>>
    /\ exit_code = -1
    /\ killed_by = "none"
    /\ pgrp_leader = FALSE
    /\ nforks = 0
    /\ socket_fd = FALSE
    /\ connects = 0
    /\ connected = FALSE
    /\ max_retry = MAX_RETRY
    /\ child = "none"
    /\ grandchild = [state |-> "none", cloexec |-> {}, environ |-> <<>>, argv |-> <<>>]
    /\ semid = 0
    /\ sem = [exists |-> FALSE, val |-> 0]
    /\ handlers = [sig \in DOMAIN SIGNO |-> "SIG_DFL"]
    /\ in_usr1 = FALSE
    /\ usr1_pending = FALSE
    /\ msgs = <<>>
    /\ out = <<>>
    /\ pg_signals = <<>>
    /\ nAlrm = 0
    /\ nInt = 0
    /\ payload = [pid |-> 0, environ |-> <<>>, argv |-> <<>>, semid |-> <<>>]
    /\ helper_environ = <<>>
    /\ fds = <<>>

\* A variant that reports the rendezvous timeout as 1.
return_code_timeout_one(failure) ==
    CASE failure = "timeout" -> 1
      [] failure = "semget" -> 5
      [] failure = "sendmsg" -> 3
      [] failure = "sleep" -> 4

\* A variant that reports a failed semget() as 1.
return_code_semget_one(failure) ==
    CASE failure = "timeout" -> 2
      [] failure = "semget" -> 1
      [] failure = "sendmsg" -> 3
      [] failure = "sleep" -> 4

\* main(), lines 355, 365, 406 and 414: what main() returns on the helper
\* path
return_code(failure) ==
    CASE failure = "timeout" -> 2
      [] failure = "semget" -> 5
      [] failure = "sendmsg" -> 3
      [] failure = "sleep" -> 4

\* exit(code) or return code from main().
Exit(code) ==
    /\ pc' = "exited"
    /\ exit_code' = ExitStatus(code)

\* main(), lines 231-235
FindKartCli ==
    /\ Running /\ pc = "start"
    /\ IF find_kart_cli
       THEN pc' = "is_helper_enabled" /\ UNCHANGED exit_code
       ELSE Exit(1)
    /\ UNCHANGED <<environ, argv, fs, image, exec_argv, killed_by, pgrp_leader,
                   nforks, socket_fd, connects, connected, max_retry, child,
                   grandchild, helper, semid, sem, handlers, in_usr1,
                   usr1_pending, msgs, out, pg_signals, nAlrm, nInt, payload,
                   helper_environ, fds,
                   notShim>>

\* main(), line 237
HelperGate ==
    /\ Running /\ pc = "is_helper_enabled"
    /\ pc' = IF is_helper_enabled THEN "setpgrp" ELSE "execvp"
    /\ UNCHANGED <<environ, argv, fs, image, exec_argv, exit_code, killed_by,
                   pgrp_leader, nforks, socket_fd, connects, connected,
                   max_retry, child, grandchild, helper, semid, sem, handlers,
                   in_usr1, usr1_pending, msgs, out, pg_signals, nAlrm, nInt,
                   payload, helper_environ, fds,
                   notShim>>

\* main(), lines 416-422: execvp(cmd_path, argv); when it fails main() runs
\* off its end, which returns 0.
ExecKartCli ==
    /\ Running /\ pc = "execvp"
    /\ \/ /\ pc' = "execed"
          /\ image' = "kart_cli"
          /\ exec_argv' = argv
          /\ UNCHANGED exit_code
       \/ /\ Exit(0)
          /\ UNCHANGED <<image, exec_argv>>
    /\ UNCHANGED <<environ, argv, fs, killed_by, pgrp_leader, nforks,
                   socket_fd, connects, connected, max_retry, child,
                   grandchild, helper, semid, sem, handlers, in_usr1,
                   usr1_pending, msgs, out, pg_signals, nAlrm, nInt, payload,
                   helper_environ, fds,
                   notShim>>

\* main(), line 243
Setpgrp ==
    /\ Running /\ pc = "setpgrp"
    /\ pgrp_leader' = TRUE
    /\ pc' = "prepare"
    /\ UNCHANGED <<environ, argv, fs, image, exec_argv, exit_code, killed_by,
                   nforks, socket_fd, connects, connected, max_retry, child,
                   grandchild, helper, semid, sem, handlers, in_usr1,
                   usr1_pending, msgs, out, pg_signals, nAlrm, nInt, payload,
                   helper_environ, fds,
                   notShim>>

\* What open(getcwd(NULL, 0), O_RDONLY) returns: a descriptor of the working
\* directory, or -1.
CwdFds == {"cwd", "-1"}

\* A variant that lists the directory first.
fds_array_cwd_first(fp) == <<fp, "stdin", "stdout", "stderr">>

\* main(), line 289: int fds[4]
fds_array(fp) == <<"stdin", "stdout", "stderr", fp>>

\* main(), lines 246-304: the payload's pid, environ and argv, the helper's
\* environment, the four descriptors and the socket.
Prepare ==
    /\ Running /\ pc = "prepare"
    /\ \E pid \in Pids, garbage \in Garbage :
          payload' = [pid |-> pid,
                      environ |-> payload_environ(environ, garbage),
                      argv |-> argv,
                      semid |-> <<>>]
    /\ helper_environ' = build_helper_environ(environ)
    /\ \E fp \in CwdFds : fds' = fds_array(fp)
    /\ socket_fd' = TRUE
    /\ pc' = "connect"
    /\ UNCHANGED <<environ, argv, fs, image, exec_argv, exit_code, killed_by,
                   pgrp_leader, nforks, connects, connected, max_retry, child,
                   grandchild, helper, semid, sem, handlers, in_usr1,
                   usr1_pending, msgs, out, pg_signals, nAlrm, nInt,
                   notShim>>

\* main(), line 309
Connect ==
    /\ Running /\ pc = "connect"
    /\ connects' = connects + 1
    /\ connected' = helper
    /\ pc' = IF helper THEN "semget" ELSE "fork"
    /\ UNCHANGED <<environ, argv, fs, image, exec_argv, exit_code, killed_by,
                   pgrp_leader, nforks, socket_fd, max_retry, child,
                   grandchild, helper, semid, sem, handlers, in_usr1,
                   usr1_pending, msgs, out, pg_signals, nAlrm, nInt, payload,
                   helper_environ, fds,
                   notShim>>

\* main(), line 313: fork() of the intermediate child (or its failure).
Fork ==
    /\ Running /\ pc = "fork"
    /\ nforks' = nforks + 1
    /\ \/ child' = "running"
       \/ child' = child
    /\ pc' = "wait"
    /\ UNCHANGED <<environ, argv, fs, image, exec_argv, exit_code, killed_by,
                   pgrp_leader, socket_fd, connects, connected, max_retry,
                   grandchild, helper, semid, sem, handlers, in_usr1,
                   usr1_pending, msgs, out, pg_signals, nAlrm, nInt, payload,
                   helper_environ, fds,
                   notShim>>

\* The intermediate child, line 318: fork() of the grandchild (or its failure).
ChildFork ==
    /\ child = "running"
    /\ \/ grandchild' = [grandchild EXCEPT !.state = "running"]
       \/ grandchild' = grandchild
    /\ child' = "exiting"
    /\ UNCHANGED <<environ, argv, fs, pc, image, exec_argv, exit_code,
                   killed_by, pgrp_leader, nforks, socket_fd, connects,
                   connected, max_retry, helper, semid, sem, handlers,
                   in_usr1, usr1_pending, msgs, out, pg_signals, nAlrm, nInt,
                   payload, helper_environ, fds,
                   notShim>>

\* The intermediate child, line 337: exit(0).
ChildExit ==
    /\ child = "exiting"
    /\ child' = "zombie"
    /\ UNCHANGED <<environ, argv, fs, pc, image, exec_argv, exit_code,
                   killed_by, pgrp_leader, nforks, socket_fd, connects,
                   connected, max_retry, grandchild, helper, semid, sem,
                   handlers, in_usr1, usr1_pending, msgs, out, pg_signals,
                   nAlrm, nInt, payload, helper_environ, fds,
                   notShim>>

\* A variant that leaves the standard streams open across the exec.
cloexec_fds_none == {}

\* The grandchild, lines 325-327: the fds given FD_CLOEXEC
cloexec_fds == {0, 1, 2}

\* The grandchild, lines 321-327.
GrandchildCloexec ==
    /\ grandchild.state = "running"
    /\ grandchild' = [state |-> "execvp",
                      cloexec |-> cloexec_fds,
                      environ |-> helper_environ,
                      argv |-> <<"kart_cli", "helper", "--socket", socket_filename>>]
    /\ UNCHANGED <<environ, argv, fs, pc, image, exec_argv, exit_code,
                   killed_by, pgrp_leader, nforks, socket_fd, connects,
                   connected, max_retry, child, helper, semid, sem, handlers,
                   in_usr1, usr1_pending, msgs, out, pg_signals, nAlrm, nInt,
                   payload, helper_environ, fds,
                   notShim>>

\* The environment execve() hands to the new image: the entries of the array
\* up to its first null pointer.
RECURSIVE execve_environ(_, _)
execve_environ(arr, slot) ==
    IF arr = <<>> THEN <<>>
    ELSE IF Head(arr) # UNINIT THEN <<Head(arr)>> \o execve_environ(Tail(arr), slot)
    ELSE IF slot = "NULL" THEN <<>>
    ELSE <<GarbageEntry>> \o execve_environ(Tail(arr), slot)

\* The grandchild, lines 329-335: execvp of the worker, exit(1) when it fails.
GrandchildExec ==
    /\ grandchild.state = "execvp"
    /\ \E slot \in UninitSlots :
        \/ /\ slot = "EFAULT" => \A i \in DOMAIN grandchild.environ :
                                    grandchild.environ[i] # UNINIT
           /\ grandchild' = [grandchild EXCEPT
                                !.state = "helper",
                                !.environ = execve_environ(@, slot)]
        \/ grandchild' = [grandchild EXCEPT !.state = "exit1"]
    /\ UNCHANGED <<environ, argv, fs, pc, image, exec_argv, exit_code,
                   killed_by, pgrp_leader, nforks, socket_fd, connects,
                   connected, max_retry, child, helper, semid, sem, handlers,
                   in_usr1, usr1_pending, msgs, out, pg_signals, nAlrm, nInt,
                   payload, helper_environ, fds,
                   notShim>>

\* The helper binds the session socket and listens.
HelperListen ==
    /\ grandchild.state = "helper"
    /\ ~helper
    /\ helper' = TRUE
    /\ UNCHANGED <<environ, argv, fs, pc, image, exec_argv, exit_code,
                   killed_by, pgrp_leader, nforks, socket_fd, connects,
                   connected, max_retry, child, grandchild, semid, sem,
                   handlers, in_usr1, usr1_pending, msgs, out, pg_signals,
                   nAlrm, nInt, payload, helper_environ, fds,
                   notShim>>

\* main(), line 341: wait(&status) returns once a child has exited; it fails
\* at once when fork() made no child.
Wait ==
    /\ Running /\ pc = "wait"
    /\ \/ child = "zombie" /\ child' = "reaped"
       \/ child = "none" /\ child' = child
    /\ pc' = "poll"
    /\ UNCHANGED <<environ, argv, fs, image, exec_argv, exit_code, killed_by,
                   pgrp_leader, nforks, socket_fd, connects, connected,
                   max_retry, grandchild, helper, semid, sem, handlers,
                   in_usr1, usr1_pending, msgs, out, pg_signals, nAlrm, nInt,
                   payload, helper_environ, fds,
                   notShim>>

\* A variant of the loop condition that stops one retry earlier.
retry_left_strict(decremented) == decremented > 0

\* main(), line 348: --max_retry >= 0, given the decremented counter
retry_left(decremented) == decremented >= 0

\* main(), lines 346-356: one evaluation of the loop condition
\* (rtc = connect(...)) != 0 && --max_retry >= 0.
Poll ==
    /\ Running /\ pc = "poll"
    /\ connects' = connects + 1
    /\ IF helper
       THEN /\ connected' = TRUE
            /\ pc' = "semget"
            /\ UNCHANGED <<max_retry, exit_code>>
       ELSE /\ max_retry' = max_retry - 1
            /\ IF retry_left(max_retry - 1)
               THEN pc' = "nanosleep" /\ UNCHANGED exit_code
               ELSE Exit(return_code("timeout"))
            /\ UNCHANGED connected
    /\ UNCHANGED <<environ, argv, fs, image, exec_argv, killed_by,
                   pgrp_leader, nforks, socket_fd, child, grandchild, helper,
                   semid, sem, handlers, in_usr1, usr1_pending, msgs, out,
                   pg_signals, nAlrm, nInt, payload, helper_environ, fds,
                   notShim>>

\* main(), line 350
Nanosleep ==
    /\ Running /\ pc = "nanosleep"
    /\ pc' = "poll"
    /\ UNCHANGED <<environ, argv, fs, image, exec_argv, exit_code, killed_by,
                   pgrp_leader, nforks, socket_fd, connects, connected,
                   max_retry, child, grandchild, helper, semid, sem, handlers,
                   in_usr1, usr1_pending, msgs, out, pg_signals, nAlrm, nInt,
                   payload, helper_environ, fds,
                   notShim>>

\* A variant that leaves the key's number at zero.
payload_with_semid_zero(p, id) == [p EXCEPT !.semid = <<0>>]

\* main(), line 368: cJSON_AddNumberToObject(payload, "semid", semid)
payload_with_semid(p, id) == [p EXCEPT !.semid = <<id>>]

\* main(), lines 362-397: semget(), then semid goes into the payload and the
\* message is laid out.
Semget ==
    /\ Running /\ pc = "semget"
    /\ \/ \E id \in SemIds :
             /\ semid' = id
             /\ sem' = [exists |-> TRUE, val |-> 0]
             /\ payload' = payload_with_semid(payload, id)
             /\ pc' = "signal_alrm"
             /\ UNCHANGED exit_code
       \/ /\ semid' = -1
          /\ Exit(return_code("semget"))
          /\ UNCHANGED <<sem, payload>>
    /\ UNCHANGED <<environ, argv, fs, image, exec_argv, killed_by,
                   pgrp_leader, nforks, socket_fd, connects, connected,
                   max_retry, child, grandchild, helper, handlers, in_usr1,
                   usr1_pending, msgs, out, pg_signals, nAlrm, nInt, helper_environ,
                   fds,
                   notShim>>

\* main(), line 399
SignalAlrm ==
    /\ Running /\ pc = "signal_alrm"
    /\ handlers' = [handlers EXCEPT !.SIGALRM = "exit_on_sigalrm"]
    /\ pc' = "signal_int"
    /\ UNCHANGED <<environ, argv, fs, image, exec_argv, exit_code, killed_by,
                   pgrp_leader, nforks, socket_fd, connects, connected,
                   max_retry, child, grandchild, helper, semid, sem, in_usr1,
                   usr1_pending, msgs, out, pg_signals, nAlrm, nInt, payload,
                   helper_environ, fds,
                   notShim>>

\* main(), line 400
SignalInt ==
    /\ Running /\ pc = "signal_int"
    /\ handlers' = [handlers EXCEPT !.SIGINT = "exit_on_sigint"]
    /\ pc' = "signal_usr1"
    /\ UNCHANGED <<environ, argv, fs, image, exec_argv, exit_code, killed_by,
                   pgrp_leader, nforks, socket_fd, connects, connected,
                   max_retry, child, grandchild, helper, semid, sem, in_usr1,
                   usr1_pending, msgs, out, pg_signals, nAlrm, nInt, payload,
                   helper_environ, fds,
                   notShim>>

\* main(), line 401
SignalUsr1 ==
    /\ Running /\ pc = "signal_usr1"
    /\ handlers' = [handlers EXCEPT !.SIGUSR1 = "handle_sigusr1"]
    /\ pc' = "sendmsg"
    /\ UNCHANGED <<environ, argv, fs, image, exec_argv, exit_code, killed_by,
                   pgrp_leader, nforks, socket_fd, connects, connected,
                   max_retry, child, grandchild, helper, semid, sem, in_usr1,
                   usr1_pending, msgs, out, pg_signals, nAlrm, nInt, payload,
                   helper_environ, fds,
                   notShim>>

\* main(), lines 373-397: the message: one iovec with the payload text and
\* one SCM_RIGHTS control message with the descriptors
msghdr == [data |-> payload, rights |-> fds]

\* main(), lines 403-407: one sendmsg() of the payload with the descriptors
\* as SCM_RIGHTS, or its failure; a descriptor of -1 cannot be passed.
Sendmsg ==
    /\ Running /\ pc = "sendmsg"
    /\ \/ /\ \A i \in DOMAIN fds : fds[i] # "-1"
          /\ msgs' = Append(msgs, msghdr)
          /\ pc' = "sleep"
          /\ UNCHANGED exit_code
       \/ /\ Exit(return_code("sendmsg"))
          /\ UNCHANGED msgs
    /\ UNCHANGED <<environ, argv, fs, image, exec_argv, killed_by,
                   pgrp_leader, nforks, socket_fd, connects, connected,
                   max_retry, child, grandchild, helper, semid, sem, handlers,
                   in_usr1, usr1_pending, out, pg_signals, nAlrm, nInt, payload,
                   helper_environ, fds,
                   notShim>>

\* main(), lines 412-414: sleep(86400) returns.
Sleep ==
    /\ Running /\ pc = "sleep"
    /\ Exit(return_code("sleep"))
    /\ UNCHANGED <<environ, argv, fs, image, exec_argv, killed_by,
                   pgrp_leader, nforks, socket_fd, connects, connected,
                   max_retry, child, grandchild, helper, semid, sem, handlers,
                   in_usr1, usr1_pending, msgs, out, pg_signals, nAlrm, nInt,
                   payload, helper_environ, fds,
                   notShim>>

\* The default action of SIGALRM, SIGINT and SIGUSR1 ends the process.
Killed(sig) ==
    /\ pc' = "killed"
    /\ killed_by' = sig

\* exit_on_sigalrm(), lines 197-210. The code exit() is given.
\* A variant that exits with the semaphore value itself.
sigalrm_exit_code_raw(semval) == semval

sigalrm_exit_code(semval) == semval - 1000

\* A variant that removes the semaphore and returns to the interrupted code.
exit_on_sigalrm_returns ==
    /\ sem' = [sem EXCEPT !.exists = FALSE]
    /\ UNCHANGED <<pc, exit_code>>

\* A variant that exits without removing the semaphore.
exit_on_sigalrm_keep_sem ==
    IF ~sem.exists
    THEN /\ Exit(5)
         /\ UNCHANGED sem
    ELSE /\ sem' = sem
         /\ Exit(sigalrm_exit_code(sem.val))

exit_on_sigalrm ==
    IF ~sem.exists
    THEN /\ Exit(5)
         /\ UNCHANGED sem
    ELSE /\ sem' = [sem EXCEPT !.exists = FALSE]
         /\ Exit(sigalrm_exit_code(sem.val))

DeliverSIGALRM ==
    /\ Alive
    /\ nAlrm' = nAlrm + 1
    /\ IF handlers.SIGALRM = "SIG_DFL"
       THEN Killed("SIGALRM") /\ UNCHANGED <<sem, exit_code>>
       ELSE exit_on_sigalrm /\ UNCHANGED killed_by
    /\ UNCHANGED <<environ, argv, fs, image, exec_argv, pgrp_leader, nforks,
                   socket_fd, connects, connected, max_retry, child,
                   grandchild, helper, semid, handlers, in_usr1, usr1_pending,
                   msgs, out, pg_signals, payload, helper_environ, fds,
                   nInt, notShim>>

\* The SIGINT deliveries followed.
MaxSigint == 2

\* A variant that exits without signalling the process group.
exit_on_sigint_self_only ==
    /\ out' = Append(out, "\n")
    /\ pg_signals' = pg_signals
    /\ Exit(128 + SIGNO.SIGINT)

\* exit_on_sigint(), lines 216-221
exit_on_sigint ==
    /\ out' = Append(out, "\n")
    /\ pg_signals' = Append(pg_signals, "SIGINT")
    /\ Exit(128 + SIGNO.SIGINT)

DeliverSIGINT ==
    /\ Alive
    /\ nInt < MaxSigint
    /\ nInt' = nInt + 1
    /\ CASE handlers.SIGINT = "SIG_DFL" ->
              Killed("SIGINT") /\ UNCHANGED <<out, pg_signals, exit_code>>
         [] handlers.SIGINT = "SIG_IGN" ->
              UNCHANGED <<pc, killed_by, out, pg_signals, exit_code>>
         [] OTHER ->
              exit_on_sigint /\ UNCHANGED killed_by
    /\ UNCHANGED <<environ, argv, fs, image, exec_argv, pgrp_leader, nforks,
                   socket_fd, connects, connected, max_retry, child,
                   grandchild, helper, semid, sem, handlers, in_usr1,
                   usr1_pending, msgs, nAlrm, payload, helper_environ, fds,
                   notShim>>

\* A variant that sleeps without touching the disposition of SIGINT.
handle_sigusr1_sleep_only ==
    /\ handlers' = handlers
    /\ in_usr1' = TRUE

\* handle_sigusr1(), lines 223-227: SIGINT is ignored from here on and the
\* handler sleeps; a further SIGUSR1 stays blocked while it runs.
handle_sigusr1 ==
    /\ handlers' = [handlers EXCEPT !.SIGINT = "SIG_IGN"]
    /\ in_usr1' = TRUE

DeliverSIGUSR1 ==
    /\ Alive
    /\ CASE handlers.SIGUSR1 = "SIG_DFL" ->
              Killed("SIGUSR1") /\ UNCHANGED <<handlers, in_usr1, usr1_pending>>
         [] in_usr1 ->
              usr1_pending' = TRUE /\ UNCHANGED <<handlers, in_usr1, pc, killed_by>>
         [] OTHER ->
              handle_sigusr1 /\ UNCHANGED <<usr1_pending, pc, killed_by>>
    /\ UNCHANGED <<environ, argv, fs, image, exec_argv, exit_code,
                   pgrp_leader, nforks, socket_fd, connects, connected,
                   max_retry, child, grandchild, helper, semid, sem, msgs,
                   out, pg_signals, nAlrm, nInt, payload, helper_environ, fds,
                   notShim>>

\* handle_sigusr1's sleep(86400) returns and with it the handler; a blocked
\* SIGUSR1 is then delivered.
Usr1Returns ==
    /\ Alive /\ in_usr1
    /\ in_usr1' = usr1_pending
    /\ usr1_pending' = FALSE
    /\ UNCHANGED <<environ, argv, fs, pc, image, exec_argv, exit_code,
                   killed_by, pgrp_leader, nforks, socket_fd, connects,
                   connected, max_retry, child, grandchild, helper, semid,
                   sem, handlers, msgs, out, pg_signals, nAlrm, nInt, payload,
                   helper_environ, fds,
                   notShim>>

\* The helper stores 1000 + code in the semaphore whose id the payload gave.
DriverSetSem ==
    /\ Alive /\ msgs # <<>> /\ sem.exists
    /\ \E v \in SemValues : sem' = [sem EXCEPT !.val = v]
    /\ UNCHANGED <<environ, argv, fs, pc, image, exec_argv, exit_code,
                   killed_by, pgrp_leader, nforks, socket_fd, connects,
                   connected, max_retry, child, grandchild, helper, semid,
                   handlers, in_usr1, usr1_pending, msgs, out, pg_signals,
                   nAlrm, nInt, payload, helper_environ, fds,
                   notShim>>

\* Another process removes the semaphore set.
DriverRemoveSem ==
    /\ Alive /\ msgs # <<>> /\ sem.exists
    /\ sem' = [sem EXCEPT !.exists = FALSE]
    /\ UNCHANGED <<environ, argv, fs, pc, image, exec_argv, exit_code,
                   killed_by, pgrp_leader, nforks, socket_fd, connects,
                   connected, max_retry, child, grandchild, helper, semid,
                   handlers, in_usr1, usr1_pending, msgs, out, pg_signals,
                   nAlrm, nInt, payload, helper_environ, fds,
                   notShim>>

ShimNext ==
    \/ FindKartCli \/ HelperGate \/ ExecKartCli \/ Setpgrp \/ Prepare
    \/ Connect \/ Fork \/ ChildFork \/ ChildExit \/ GrandchildCloexec
    \/ GrandchildExec \/ HelperListen \/ Wait \/ Poll \/ Nanosleep
    \/ Semget \/ SignalAlrm \/ SignalInt \/ SignalUsr1 \/ Sendmsg \/ Sleep
    \/ DeliverSIGALRM \/ DeliverSIGINT \/ DeliverSIGUSR1 \/ Usr1Returns
    \/ DriverSetSem \/ DriverRemoveSem


----------------------------------------------------------------------------
(* Properties of the shim                                                  *)

HandlersInstalled ==
    /\ handlers.SIGALRM = "exit_on_sigalrm"
    /\ handlers.SIGINT \in {"exit_on_sigint", "SIG_IGN"}
    /\ handlers.SIGUSR1 = "handle_sigusr1"

\* C1. Semaphore-exit law: once the handlers are installed and the payload is
\* sent, a SIGALRM delivered while the semaphore holds 1000 + k, k in 0..255,
\* ends the shim with exit code k.
C1_SemaphoreExitLaw ==
    [][ ( /\ nAlrm' = nAlrm + 1
          /\ HandlersInstalled
          /\ msgs # <<>>
          /\ sem.exists
          /\ sem.val - 1000 \in 0 .. 255 )
        => ( pc' = "exited" /\ exit_code' = sem.val - 1000 ) ]_vars

C1_Witness ==
    /\ pc = "exited"
    /\ nAlrm = 1
    /\ msgs # <<>>
    /\ sem.val = 1255
    /\ ~sem.exists
    /\ exit_code = 255

\* KART_USE_HELPER is unset, or its value does not begin with '0'.
HelperEnabledByEnv ==
    \A i \in DOMAIN environ :
        environ[i].key = "KART_USE_HELPER"
            => (Len(environ[i].val) = 0 \/ SubSeq(environ[i].val, 1, 1) # "0")

\* C2. Helper-enable gate: with helper mode disabled the shim only execs
\* kart_cli with its own argv (no process group, fork, socket, connection or
\* semaphore); with helper mode enabled it never execs kart_cli in place of
\* itself and does not get past the gate without attempting a connection.
C2_HelperEnableGate ==
    /\ ~HelperEnabledByEnv =>
          /\ pc \in {"start", "is_helper_enabled", "execvp", "execed", "exited", "killed"}
          /\ ~pgrp_leader /\ nforks = 0 /\ child = "none"
          /\ ~socket_fd /\ connects = 0
          /\ semid = 0 /\ ~sem.exists /\ msgs = <<>>
          /\ pc = "execed" => (image = "kart_cli" /\ exec_argv = argv)
          /\ pc = "exited" => (exit_code = 1 <=> ~find_kart_cli)
    /\ HelperEnabledByEnv =>
          /\ pc \notin {"execvp", "execed"}
          /\ image = "kart"
          /\ pc \notin {"start", "is_helper_enabled", "setpgrp", "prepare", "connect",
                        "killed", "exited"}
                => (socket_fd /\ connects >= 1)
          /\ (pc = "exited" /\ find_kart_cli) => connects >= 1

C2_Witness ==
    /\ ~HelperEnabledByEnv
    /\ Len(getenv("KART_USE_HELPER").s) > 1
    /\ pc = "execed"
    /\ image = "kart_cli"

\* The connect() attempts of the poll loop so far, and the state in which the
\* loop gave up.
Polls == IF connects = 0 THEN 0 ELSE connects - 1
RendezvousTimedOut == pc = "exited" /\ exit_code = 2 /\ ~connected /\ msgs = <<>>
NothingSent == semid = 0 /\ ~sem.exists /\ msgs = <<>>

\* C12 as stated. Bounded rendezvous: after a failed initial connect and the
\* helper spawn, the shim polls the session socket at most 50 times, sleeping
\* 250 ms between attempts; if every attempt fails it exits with code 2,
\* having created no semaphore and sent no message.
C12_AtMostFiftyPolls ==
    /\ Polls <= MAX_RETRY
    /\ pc = "nanosleep" => (~connected /\ Polls >= 1)
    /\ RendezvousTimedOut => NothingSent

\* C12. Bounded rendezvous, as the loop runs: after a failed initial connect
\* and the helper spawn, the shim polls the session socket at most 51 times
\* (one attempt and up to 50 retries), sleeping 250 ms before each retry, 50
\* sleeps at most; if every attempt fails it exits with code 2 after the 51st,
\* having created no semaphore and sent no message.
C12_BoundedRendezvous ==
    /\ Polls <= MAX_RETRY + 1
    /\ pc \in {"poll", "nanosleep"} =>
          /\ ~connected
          /\ Polls = MAX_RETRY - max_retry
          /\ NothingSent
    /\ pc = "nanosleep" => (Polls >= 1 /\ Polls <= MAX_RETRY)
    /\ RendezvousTimedOut =>
          /\ Polls = MAX_RETRY + 1
          /\ max_retry = -1
          /\ NothingSent
          /\ nforks = 1

C12_Witness ==
    /\ RendezvousTimedOut
    /\ connects = MAX_RETRY + 2
    /\ child = "reaped"
    /\ grandchild.state = "exit1"

\* C13. Wire format: per invocation the shim performs exactly one sendmsg on
\* the connected socket; that single message carries the payload text as main
\* data together with one SCM_RIGHTS control message holding exactly four
\* descriptors in the order [stdin, stdout, stderr, cwd directory fd], so
\* payload and descriptors are never delivered separately; if the send fails
\* the shim exits with code 3.
C13_WireFormat ==
    [][ /\ Len(msgs') <= 1
        /\ msgs # <<>> => msgs' = msgs
        /\ pc' = "sleep" => Len(msgs') = 1
        /\ (msgs = <<>> /\ msgs' # <<>>) =>
              /\ pc = "sendmsg" /\ pc' = "sleep" /\ connected
              /\ msgs'[1].data = payload
              /\ msgs'[1].rights = <<"stdin", "stdout", "stderr", "cwd">>
        /\ (pc = "sendmsg" /\ pc' = "exited" /\ nAlrm' = nAlrm /\ out' = out) =>
              /\ exit_code' = 3
              /\ msgs' = <<>> ]_vars

C13_Witness ==
    /\ pc = "sleep"
    /\ Len(msgs) = 1
    /\ msgs[1].rights = <<"stdin", "stdout", "stderr", "cwd">>
    /\ msgs[1].data.semid = <<semid>>
    /\ connects > 1

C13_SendFailed ==
    /\ pc = "exited" /\ exit_code = 3
    /\ fds[4] = "-1"
    /\ msgs = <<>>
    /\ sem.exists

\* C14. Ordering guarantee: in every execution in which the payload is sent,
\* the exit semaphore was created successfully beforehand and the payload
\* contains that semaphore's id as semid; and the SIGALRM, SIGINT and SIGUSR1
\* handlers are all installed before the shim enters its final sleep.
C14_OrderingGuarantee ==
    [][ /\ (msgs = <<>> /\ msgs' # <<>>) =>
              /\ semid \in SemIds
              /\ sem.exists /\ sem.val = 0
              /\ msgs'[1].data.semid = <<semid>>
              /\ semid' = semid
        /\ (pc # "sleep" /\ pc' = "sleep") =>
              /\ handlers.SIGALRM = "exit_on_sigalrm"
              /\ handlers.SIGINT \in {"exit_on_sigint", "SIG_IGN"}
              /\ handlers.SIGUSR1 = "handle_sigusr1"
              /\ handlers' = handlers ]_vars

C14_Witness ==
    /\ pc = "sleep"
    /\ msgs # <<>>
    /\ semid = 7
    /\ msgs[1].data.semid = <<7>>
    /\ sem = [exists |-> TRUE, val |-> 0]
    /\ handlers = [SIGINT |-> "exit_on_sigint", SIGUSR1 |-> "handle_sigusr1",
                   SIGALRM |-> "exit_on_sigalrm"]
    /\ connects = 1

\* C15. SIGINT handling: the shim becomes leader of its own process group
\* before any fork, and when SIGINT is delivered after the handlers are
\* installed and before any SIGUSR1 has been handled, the shim writes a
\* newline, sends SIGINT to its whole process group and exits with code
\* 128 + SIGINT (130).
C15_SigintHandling ==
    [][ /\ (nforks' # nforks \/ child' # child \/ grandchild' # grandchild)
              => pgrp_leader
        /\ (nInt' = nInt + 1 /\ handlers.SIGINT = "exit_on_sigint") =>
              /\ out' = Append(out, "\n")
              /\ pg_signals' = Append(pg_signals, "SIGINT")
              /\ pc' = "exited"
              /\ exit_code' = 130
              /\ killed_by' = "none" ]_vars

C15_Witness ==
    /\ nInt = 1
    /\ pc = "exited" /\ exit_code = 130
    /\ out = <<"\n">>
    /\ pg_signals = <<"SIGINT">>
    /\ HandlersInstalled
    /\ msgs # <<>>
    /\ nforks = 1 /\ pgrp_leader

\* C16. SIGUSR1 inhibition: once the shim has handled SIGUSR1, no later SIGINT
\* makes the shim exit, write a newline or signal its process group; the shim
\* stays asleep until it is terminated by another path.
C16_Sigusr1Inhibition ==
    [][ /\ (~in_usr1 /\ in_usr1') => handlers'.SIGINT = "SIG_IGN"
        /\ handlers.SIGINT = "SIG_IGN" =>
              /\ handlers'.SIGINT = "SIG_IGN"
              /\ out' = out
              /\ pg_signals' = pg_signals
              /\ nInt' = nInt + 1 =>
                    /\ pc' = pc /\ exit_code' = exit_code /\ killed_by' = killed_by
                    /\ in_usr1' = in_usr1
        /\ (in_usr1 /\ pc' # pc) => (nAlrm' = nAlrm + 1 /\ pc' = "exited") ]_vars

C16_Witness ==
    /\ nInt = MaxSigint
    /\ handlers.SIGINT = "SIG_IGN"
    /\ in_usr1
    /\ pc = "sleep"
    /\ out = <<>> /\ pg_signals = <<>>

\* Neither the sibling kart_cli of the executable's path nor the sibling of
\* its symlink-resolved path exists.
NeitherSiblingExists == ~fs.sibling /\ ~fs.resolved_sibling

\* C17. Worker-not-found is fatal: the worker lookup fails only if neither the
\* sibling kart_cli of the resolved executable path nor the sibling of its
\* symlink-resolved path exists, and in that case the shim exits with code 1
\* before any other step, whether or not helper mode is enabled (no exec,
\* fork, socket or semaphore).
C17_WorkerNotFound ==
    [][ /\ (pc = "start" /\ pc' = "exited") =>
              /\ NeitherSiblingExists
              /\ exit_code' = 1
        /\ NeitherSiblingExists =>
              /\ pc' \in {"start", "exited", "killed"}
              /\ pc' = "exited" => (pc = "start" /\ exit_code' = 1)
              /\ image' = "kart" /\ exec_argv' = <<>>
              /\ ~pgrp_leader' /\ nforks' = 0 /\ child' = "none"
              /\ ~socket_fd' /\ connects' = 0
              /\ semid' = 0 /\ ~sem'.exists /\ msgs' = <<>> ]_vars

C17_Witness ==
    /\ NeitherSiblingExists
    /\ fs.exe /\ fs.realpath
    /\ pc = "exited" /\ exit_code = 1
    /\ ~is_helper_enabled
    /\ image = "kart"

C17_WitnessHelperEnabled ==
    /\ NeitherSiblingExists
    /\ pc = "exited" /\ exit_code = 1
    /\ is_helper_enabled
    /\ ~pgrp_leader

OtherVariables == SelectSeq(environ, LAMBDA e : e.key # "KART_USE_HELPER")

\* C19. Payload invariant: every payload that is sent has the keys pid,
\* environ, argv and semid; environ never contains the key KART_USE_HELPER and
\* contains every other variable of the shim's environment; argv lists the
\* shim's original arguments in order; semid is the id of the semaphore
\* created by this invocation.
C19_PayloadInvariant ==
    \A m \in 1 .. Len(msgs) :
        /\ msgs[m].data.pid \in Pids
        /\ \A i \in DOMAIN msgs[m].data.environ :
              msgs[m].data.environ[i].key # "KART_USE_HELPER"
        /\ msgs[m].data.environ = OtherVariables
        /\ msgs[m].data.argv = argv
        /\ msgs[m].data.semid = <<semid>>
        /\ semid \in SemIds

\* The same with the values of the variables compared only where the shim's
\* environment gives a non-empty value.
C19_PayloadInvariantNonEmptyValues ==
    \A m \in 1 .. Len(msgs) :
        /\ msgs[m].data.pid \in Pids
        /\ \A i \in DOMAIN msgs[m].data.environ :
              msgs[m].data.environ[i].key # "KART_USE_HELPER"
        /\ Len(msgs[m].data.environ) = Len(OtherVariables)
        /\ \A i \in DOMAIN OtherVariables :
              /\ msgs[m].data.environ[i].key = OtherVariables[i].key
              /\ OtherVariables[i].val # "" =>
                    msgs[m].data.environ[i].val = OtherVariables[i].val
        /\ msgs[m].data.argv = argv
        /\ msgs[m].data.semid = <<semid>>
        /\ semid \in SemIds

\* C20 as stated. Grandchild exec failure is reported with exit code 1: when
\* the grandchild's exec of the worker fails, the shim's exit code is 1.
C20_ShimExitsOne ==
    (grandchild.state = "exit1" /\ pc = "exited") => exit_code = 1

\* C20. Grandchild exec failure: when the grandchild's exec of the worker
\* fails, it is the grandchild process that exits with code 1; the shim, which
\* waits for the intermediate child only, goes on polling a socket nobody
\* listens on and its own exit code is 2, after the last poll, with no
\* semaphore created and no message sent.
C20_GrandchildExecFailure ==
    grandchild.state = "exit1" =>
        /\ ~helper /\ ~connected
        /\ NothingSent
        /\ pc \in {"wait", "poll", "nanosleep", "exited", "killed"}
        /\ pc = "exited" => (exit_code = 2 /\ max_retry = -1)

C20_Witness ==
    /\ grandchild.state = "exit1"
    /\ pc = "exited"
    /\ exit_code = 2
    /\ killed_by = "none"
    /\ argv = <<"kart">>

\* C32. Double fork: on the spawn path the shim leaves wait() only once the
\* intermediate child has exited, reaping it, and polls from then on whatever
\* the grandchild does; the intermediate child forks the grandchild, exits
\* and never execs; the grandchild has set close-on-exec on fds 0-2 when it
\* execs.
C32_DoubleFork ==
    /\ [](child \in {"none", "running", "exiting", "zombie", "reaped"})
    /\ []((nforks > 0 /\ pc \notin {"wait", "killed"}) => child \in {"none", "reaped"})
    /\ [](grandchild.state \in {"execvp", "helper", "exit1"}
            => grandchild.cloexec = {0, 1, 2})
    /\ [][ (pc = "wait" /\ pc' = "poll") =>
              (child = "zombie" /\ child' = "reaped") \/ (child = "none" /\ child' = "none")
         ]_vars
    /\ [][ /\ child = "running" => child' \in {"running", "exiting"}
           /\ child = "exiting" => child' \in {"exiting", "zombie"}
           /\ child = "zombie" => child' \in {"zombie", "reaped"}
           /\ child = "reaped" => child' = "reaped"
           /\ grandchild.state = "none" /\ grandchild'.state # "none" =>
                 (child = "running" /\ child' = "exiting") ]_vars

\* The shim polls while the grandchild has not reached its exec.
C32_Witness ==
    /\ pc = "nanosleep"
    /\ child = "reaped"
    /\ grandchild.state = "running"
    /\ grandchild.cloexec = {}

C32_WitnessHelper ==
    /\ pc = "semget"
    /\ nforks = 1
    /\ child = "reaped"
    /\ grandchild.state = "helper"
    /\ grandchild.cloexec = {0, 1, 2}

\* C33. No lost completion signal: a SIGALRM delivered at any point once its
\* handler is installed (before sendmsg returns, before or during the final
\* sleep, or while the SIGUSR1 handler sleeps) ends the shim with the code
\* derived from the semaphore; no SIGALRM is consumed with the shim living on,
\* so the shim never reports the one-day timeout after one.
C33_NoLostSigalrm ==
    /\ [][ (nAlrm' = nAlrm + 1 /\ handlers.SIGALRM = "exit_on_sigalrm") =>
              /\ pc' = "exited"
              /\ exit_code' = (IF sem.exists THEN ExitStatus(sem.val - 1000) ELSE 5) ]_vars
    /\ [](nAlrm > 0 => ~Alive)
    /\ []((pc = "exited" /\ exit_code = 4 /\ msgs # <<>>) => nAlrm = 0)

\* Delivered while the SIGUSR1 handler was sleeping.
C33_Witness ==
    /\ nAlrm = 1
    /\ in_usr1
    /\ handlers.SIGINT = "SIG_IGN"
    /\ msgs # <<>>
    /\ pc = "exited"
    /\ exit_code = 42

\* Delivered after the handlers were installed and before sendmsg returned.
C33_WitnessBeforeSendmsg ==
    /\ nAlrm = 1
    /\ HandlersInstalled
    /\ msgs = <<>>
    /\ ~in_usr1
    /\ pc = "exited"
    /\ ~sem.exists /\ exit_code = ExitStatus(sem.val - 1000)

\* C21. Semaphore failures surface as exit 5: if creating the exit semaphore
\* fails, the shim exits with code 5 immediately, without sending any message;
\* if reading the semaphore inside the SIGALRM handler fails, the shim exits
\* with code 5.
C21_SemaphoreFailures ==
    [][ /\ (pc = "semget" /\ pc' = "exited") =>
              /\ semid' = -1
              /\ exit_code' = 5
              /\ msgs' = <<>> /\ ~sem'.exists
        /\ (pc = "semget" /\ pc' = "signal_alrm") => (semid' \in SemIds /\ sem'.exists)
        /\ semid' = -1 => (pc' = "exited" /\ exit_code' = 5 /\ msgs' = <<>>)
        /\ (nAlrm' = nAlrm + 1 /\ handlers.SIGALRM = "exit_on_sigalrm"
            /\ ~sem.exists) =>
              /\ pc' = "exited"
              /\ exit_code' = 5 ]_vars

C21_Witness ==
    /\ pc = "exited" /\ exit_code = 5
    /\ semid = -1
    /\ msgs = <<>>
    /\ connected
    /\ nAlrm = 0

C21_WitnessReadFailed ==
    /\ pc = "exited" /\ exit_code = 5
    /\ semid \in SemIds
    /\ nAlrm = 1
    /\ msgs # <<>>
    /\ ~sem.exists /\ sem.val = 1042

\* The shim exits through exit_on_sigalrm after reading the value.
SigalrmReadsValue ==
    /\ nAlrm' = nAlrm + 1
    /\ handlers.SIGALRM = "exit_on_sigalrm"
    /\ sem.exists

C22_WitnessLeftBehind ==
    /\ pc = "exited" /\ exit_code = 4
    /\ sem.exists /\ sem.val = 1000
    /\ nAlrm = 0

----------------------------------------------------------------------------
(* Numbers of the spatial filter.                                          *)
(*                                                                         *)
(* uint32_t and uint64_t values are bit sequences, most significant bit    *)
(* first. Doubles are exact rationals n/d (or NaN) over naturals of any    *)
(* size, kept as little-endian sequences of 15-bit limbs.                  *)

Min(a, b) == IF a <= b THEN a ELSE b
Max(a, b) == IF a >= b THEN a ELSE b

Pow2(k) == 2 ^ k

Zeros(k) == [i \in 1 .. k |-> 0]
Ones(k) == [i \in 1 .. k |-> 1]

\* A value of `width` bits whose low k bits are set.
LowOnes(width, k) == Zeros(width - k) \o Ones(k)

\* The low `width` bits of x, zero-extended when x is narrower.
Resize(x, width) ==
    IF Len(x) >= width
    THEN SubSeq(x, Len(x) - width + 1, Len(x))
    ELSE Zeros(width - Len(x)) \o x

BitsAnd(x, y) == [i \in 1 .. Len(x) |-> x[i] * y[i]]
BitsOr(x, y) == [i \in 1 .. Len(x) |-> Max(x[i], y[i])]

\* x << k and x >> k on unsigned values, 0 <= k < Len(x).
Shl(x, k) == SubSeq(x, k + 1, Len(x)) \o Zeros(k)
Shr(x, k) == Zeros(k) \o SubSeq(x, 1, Len(x) - k)

RECURSIVE BitsToNat(_)
BitsToNat(x) ==
    IF x = <<>> THEN 0 ELSE 2 * BitsToNat(SubSeq(x, 1, Len(x) - 1)) + x[Len(x)]

NatToBits(v, width) ==
    [i \in 1 .. width |-> IF width - i > 30 THEN 0 ELSE (v \div Pow2(width - i)) % 2]

BitsIsZero(x) == \A i \in 1 .. Len(x) : x[i] = 0

\* x <= y for unsigned values of one width.
BitsLeq(x, y) ==
    \/ \A i \in 1 .. Len(x) : x[i] = y[i]
    \/ \E i \in 1 .. Len(x) : x[i] < y[i] /\ \A j \in 1 .. i - 1 : x[j] = y[j]

LIMB_BITS == 15
BASE == Pow2(LIMB_BITS)

RECURSIVE BigNorm(_)
BigNorm(a) ==
    IF a = <<>> THEN <<>>
    ELSE IF a[Len(a)] = 0 THEN BigNorm(SubSeq(a, 1, Len(a) - 1))
    ELSE a

RECURSIVE BigFromNat(_)
BigFromNat(v) == IF v = 0 THEN <<>> ELSE <<v % BASE>> \o BigFromNat(v \div BASE)

RECURSIVE BigAddC(_, _, _)
BigAddC(a, b, c) ==
    IF a = <<>> /\ b = <<>> THEN (IF c = 0 THEN <<>> ELSE <<c>>)
    ELSE LET x == IF a = <<>> THEN 0 ELSE Head(a)
             y == IF b = <<>> THEN 0 ELSE Head(b)
             t == x + y + c
         IN  <<t % BASE>> \o BigAddC(IF a = <<>> THEN a ELSE Tail(a),
                                     IF b = <<>> THEN b ELSE Tail(b),
                                     t \div BASE)

BigAdd(a, b) == BigAddC(a, b, 0)

\* a - b for a >= b.
RECURSIVE BigSubB(_, _, _)
BigSubB(a, b, borrow) ==
    IF a = <<>> THEN <<>>
    ELSE LET y == IF b = <<>> THEN 0 ELSE Head(b)
             t == Head(a) - y - borrow
         IN  <<t % BASE>> \o BigSubB(Tail(a),
                                     IF b = <<>> THEN b ELSE Tail(b),
                                     IF t < 0 THEN 1 ELSE 0)

BigSub(a, b) == BigNorm(BigSubB(a, b, 0))

\* -1, 0 or 1 as a < b, a = b or a > b.
RECURSIVE BigCmpFrom(_, _, _)
BigCmpFrom(a, b, i) ==
    IF i = 0 THEN 0
    ELSE IF a[i] < b[i] THEN -1
    ELSE IF a[i] > b[i] THEN 1
    ELSE BigCmpFrom(a, b, i - 1)

BigCmp(a, b) ==
    IF Len(a) < Len(b) THEN -1
    ELSE IF Len(a) > Len(b) THEN 1
    ELSE BigCmpFrom(a, b, Len(a))

\* a * m + c for 0 <= m, c < BASE.
RECURSIVE BigMulSmallC(_, _, _)
BigMulSmallC(a, m, c) ==
    IF a = <<>> THEN (IF c = 0 THEN <<>> ELSE <<c>>)
    ELSE LET t == Head(a) * m + c
         IN  <<t % BASE>> \o BigMulSmallC(Tail(a), m, t \div BASE)

BigMulSmall(a, m) == BigNorm(BigMulSmallC(a, m, 0))

RECURSIVE BigMul(_, _)
BigMul(a, b) ==
    IF a = <<>> \/ b = <<>> THEN <<>>
    ELSE BigNorm(BigAdd(BigMulSmall(a, Head(b)), <<0>> \o BigMul(a, Tail(b))))

\* Quotient and remainder of a by 0 < r < BASE.
RECURSIVE BigDivSmallFrom(_, _, _, _)
BigDivSmallFrom(a, r, i, rem) ==
    IF i = 0 THEN [q |-> <<>>, r |-> rem]
    ELSE LET t == rem * BASE + a[i]
             rest == BigDivSmallFrom(a, r, i - 1, t % r)
         IN  [q |-> Append(rest.q, t \div r), r |-> rest.r]

BigDivSmall(a, r) ==
    LET res == BigDivSmallFrom(a, r, Len(a), 0)
    IN  [q |-> BigNorm(res.q), r |-> res.r]

BigFromBits(x) ==
    BigNorm([k \in 1 .. ((Len(x) + LIMB_BITS - 1) \div LIMB_BITS) |->
                BitsToNat(SubSeq(x, Max(1, Len(x) - LIMB_BITS * k + 1),
                                    Len(x) - LIMB_BITS * (k - 1)))])

RECURSIVE BigLimbBits(_)
BigLimbBits(a) ==
    IF a = <<>> THEN <<>>
    ELSE BigLimbBits(Tail(a)) \o NatToBits(Head(a), LIMB_BITS)

\* The low `width` bits of a.
BigToBits(a, width) == Resize(BigLimbBits(a), width)

\* Signed integers: sign and magnitude.
SInt(neg, mag) == [neg |-> neg /\ mag # <<>>, mag |-> mag]
SFromInt(v) == IF v < 0 THEN SInt(TRUE, BigFromNat(-v)) ELSE SInt(FALSE, BigFromNat(v))

SAdd(x, y) ==
    IF x.neg = y.neg THEN SInt(x.neg, BigAdd(x.mag, y.mag))
    ELSE IF BigCmp(x.mag, y.mag) >= 0 THEN SInt(x.neg, BigSub(x.mag, y.mag))
    ELSE SInt(y.neg, BigSub(y.mag, x.mag))

SMulBig(x, b) == SInt(x.neg, BigMul(x.mag, b))

SCmp(x, y) ==
    IF x.neg /\ ~y.neg THEN -1
    ELSE IF ~x.neg /\ y.neg THEN 1
    ELSE IF x.neg THEN BigCmp(y.mag, x.mag)
    ELSE BigCmp(x.mag, y.mag)

\* Doubles.
NaN == [nan |-> TRUE, n |-> SFromInt(0), d |-> <<>>]
Rat(n, d) == [nan |-> FALSE, n |-> n, d |-> d]
DFromInt(v) == Rat(SFromInt(v), BigFromNat(1))

DCmp(x, y) ==
    IF x.d = y.d THEN SCmp(x.n, y.n)
    ELSE SCmp(SMulBig(x.n, y.d), SMulBig(y.n, x.d))

\* The comparison operators of IEEE doubles: all false on NaN but !=.
DLt(x, y) == ~x.nan /\ ~y.nan /\ DCmp(x, y) < 0
DGt(x, y) == DLt(y, x)
DLe(x, y) == ~x.nan /\ ~y.nan /\ DCmp(x, y) <= 0
DGe(x, y) == DLe(y, x)
DNe(x, y) == x.nan \/ y.nan \/ DCmp(x, y) # 0

\* x + k for an integer k.
DAddInt(x, k) ==
    IF x.nan THEN NaN
    ELSE Rat(SAdd(x.n, SMulBig(SFromInt(k), x.d)), x.d)

----------------------------------------------------------------------------
(* The spatial filter: src/vendor/spatial-filter/spatial_filter.cpp        *)

DEFAULT_BITS_PER_VALUE == 20
INT_BITS == 32
UINT64_BITS == 64

\* A shift by the width of the type or more is undefined: a build yields the
\* shift by the count modulo the width, or zero.
ShiftUB == {"count_masked", "result_zero"}
\* A build: its undefined shifts, and whether NDEBUG removes assert().
Builds == [shift_ub : ShiftUB, ndebug : BOOLEAN]

\* 1 << k on a type of `width` bits.
ShlOne(width, k, shift_ub) ==
    IF k < width THEN Shl(LowOnes(width, 1), k)
    ELSE IF shift_ub = "count_masked" THEN Shl(LowOnes(width, 1), k % width)
    ELSE Zeros(width)

\* x - 1, wrapping.
BitsDec(x) ==
    IF BitsIsZero(x) THEN Ones(Len(x))
    ELSE BigToBits(BigSub(BigFromBits(x), <<1>>), Len(x))

\* EnvelopeEncoder::EnvelopeEncoder, lines 54-66
EnvelopeEncoder(bits_per_value, build) ==
    LET bpv == IF bits_per_value # 0 THEN bits_per_value ELSE DEFAULT_BITS_PER_VALUE
        bpe == bpv * 4
        lo  == Min(UINT64_BITS, bpe)
        hi  == Max(0, bpe - UINT64_BITS)
    IN  [ BITS_PER_VALUE     |-> bpv,
          BITS_PER_ENVELOPE  |-> bpe,
          BYTES_PER_ENVELOPE |-> bpe \div 8,
          VALUE_MAX_INT      |-> BitsDec(ShlOne(INT_BITS, bpv, build.shift_ub)),
          NUM_LO_BITS        |-> lo,
          NUM_LO_BYTES       |-> lo \div 8,
          MAX_LO_BITS        |-> IF lo = UINT64_BITS THEN Ones(UINT64_BITS)
                                 ELSE BitsDec(ShlOne(UINT64_BITS, lo, build.shift_ub)),
          NUM_HI_BITS        |-> hi,
          NUM_HI_BYTES       |-> hi \div 8,
          MAX_HI_BITS        |-> BitsDec(ShlOne(UINT64_BITS, hi, build.shift_ub)),
          ndebug             |-> build.ndebug ]

\* EnvelopeEncoder::encode_value, lines 94-101, for a value in whole degrees
\* with min_value <= value <= max_value: [abort, v].
encode_value(enc, value, min_value, max_value, round_up) ==
    LET scaled == BigDivSmall(BigMulSmall(BigFromBits(enc.VALUE_MAX_INT), value - min_value),
                              max_value - min_value)
        rounded == IF round_up /\ scaled.r # 0 THEN BigAdd(scaled.q, <<1>>) ELSE scaled.q
        encoded == BigToBits(rounded, INT_BITS)
    IN  [ abort |-> ~enc.ndebug /\ ~BitsLeq(encoded, enc.VALUE_MAX_INT),
          v     |-> encoded ]

\* EnvelopeEncoder::decode_value, lines 121-125: [abort, v].
decode_value(enc, encoded, min_value, max_value) ==
    LET vmax == BigFromBits(enc.VALUE_MAX_INT)
        e    == BigFromBits(encoded)
    IN  [ abort |-> ~enc.ndebug /\ ~BitsLeq(encoded, enc.VALUE_MAX_INT),
          v     |-> IF vmax = <<>>
                    THEN NaN
                    ELSE Rat(SAdd(SInt(FALSE, BigMulSmall(e, max_value - min_value)),
                                  SMulBig(SFromInt(min_value), vmax)),
                             vmax) ]

\* EnvelopeEncoder::shift_left, lines 127-131, on [hi, lo]
shift_left(r, shift) ==
    LET carry_bits == Shr(r.lo, UINT64_BITS - shift)
    IN  [hi |-> BitsOr(Shl(r.hi, shift), carry_bits), lo |-> Shl(r.lo, shift)]

\* EnvelopeEncoder::shift_right, lines 133-137
shift_right(r, shift) ==
    LET carry_bits == Shl(r.hi, UINT64_BITS - shift)
    IN  [hi |-> Shr(r.hi, shift), lo |-> BitsOr(Shr(r.lo, shift), carry_bits)]

\* EnvelopeEncoder::uintX_to_bytes_BE, lines 139-143: the low num_bits of
\* input as num_bits / 8 bytes, most significant first.
uintX_to_bytes_BE(input, num_bits) ==
    [k \in 1 .. (num_bits \div 8) |->
        BitsToNat(SubSeq(input, UINT64_BITS - num_bits + 8 * (k - 1) + 1,
                                UINT64_BITS - num_bits + 8 * k))]

\* input[i], counted from 1: std::string yields 0 at its end and anything
\* (oob) past it.
ByteAt(input, i, oob) ==
    IF i <= Len(input) THEN input[i]
    ELSE IF i = Len(input) + 1 THEN 0
    ELSE oob

\* EnvelopeEncoder::bytes_to_uintX_BE, lines 145-151, reading from input[from]
RECURSIVE ByteBits(_, _, _, _)
ByteBits(input, from, count, oob) ==
    IF count = 0 THEN <<>>
    ELSE NatToBits(ByteAt(input, from, oob), 8) \o ByteBits(input, from + 1, count - 1, oob)

bytes_to_uintX_BE(num_bits, input, from, oob) ==
    Resize(ByteBits(input, from, num_bits \div 8, oob), UINT64_BITS)

\* lo_bits |= v for a uint32_t v
OrValue(r, v) == [r EXCEPT !.lo = BitsOr(r.lo, Resize(v, UINT64_BITS))]

\* The packing of encode, lines 76-91, of four uint32_t values: [abort, bytes]
pack(enc, vw, vs, ve, vn) ==
    LET r1 == shift_left([hi |-> Zeros(UINT64_BITS), lo |-> Resize(vw, UINT64_BITS)],
                         enc.BITS_PER_VALUE)
        r2 == shift_left(OrValue(r1, vs), enc.BITS_PER_VALUE)
        r3 == shift_left(OrValue(r2, ve), enc.BITS_PER_VALUE)
        r4 == OrValue(r3, vn)
    IN  [ abort |-> \/ ~enc.ndebug /\ ~BitsLeq(r4.lo, enc.MAX_LO_BITS)
                    \/ ~enc.ndebug /\ ~BitsLeq(r4.hi, enc.MAX_HI_BITS),
          bytes |-> uintX_to_bytes_BE(r4.hi, enc.NUM_HI_BITS)
                        \o uintX_to_bytes_BE(r4.lo, enc.NUM_LO_BITS) ]

\* EnvelopeEncoder::encode, lines 69-92: [abort, bytes]
encode(enc, w, s, e, n) ==
    LET ew == encode_value(enc, w, -180, 180, FALSE)
        es == encode_value(enc, s, -90, 90, FALSE)
        ee == encode_value(enc, e, -180, 180, TRUE)
        en == encode_value(enc, n, -90, 90, TRUE)
        packed == pack(enc, ew.v, es.v, ee.v, en.v)
    IN  [ abort |-> ew.abort \/ es.abort \/ ee.abort \/ en.abort \/ packed.abort,
          bytes |-> packed.bytes ]

\* lo_bits & VALUE_MAX_INT, passed as a uint32_t
MaskValue(enc, r) == Resize(BitsAnd(r.lo, Resize(enc.VALUE_MAX_INT, UINT64_BITS)), INT_BITS)

\* The unpacking of decode, lines 105-118, into four uint32_t values:
\* [abort, w, s, e, n]
unpack(enc, input, oob) ==
    LET r0 == [hi |-> bytes_to_uintX_BE(enc.NUM_HI_BITS, input, 1, oob),
               lo |-> bytes_to_uintX_BE(enc.NUM_LO_BITS, input, enc.NUM_HI_BYTES + 1, oob)]
        r1 == shift_right(r0, enc.BITS_PER_VALUE)
        r2 == shift_right(r1, enc.BITS_PER_VALUE)
        r3 == shift_right(r2, enc.BITS_PER_VALUE)
    IN  [ abort |-> \/ ~enc.ndebug /\ ~BitsLeq(r0.lo, enc.MAX_LO_BITS)
                    \/ ~enc.ndebug /\ ~BitsLeq(r0.hi, enc.MAX_HI_BITS),
          w |-> MaskValue(enc, r3), s |-> MaskValue(enc, r2),
          e |-> MaskValue(enc, r1), n |-> MaskValue(enc, r0) ]

\* EnvelopeEncoder::decode, lines 103-119: [abort, w, s, e, n]
decode(enc, input, oob) ==
    LET u  == unpack(enc, input, oob)
        dn == decode_value(enc, u.n, -90, 90)
        de == decode_value(enc, u.e, -180, 180)
        ds == decode_value(enc, u.s, -90, 90)
        dw == decode_value(enc, u.w, -180, 180)
    IN  [ abort |-> u.abort \/ dn.abort \/ de.abort \/ ds.abort \/ dw.abort,
          w |-> dw.v, s |-> ds.v, e |-> de.v, n |-> dn.v ]

\* A variant that asks for one interval of non-zero width when the left edges
\* coincide.
range_overlaps_either_wide(a1, a2, b1, b2) ==
    IF DGt(a1, a2) \/ DGt(b1, b2) THEN [abort |-> TRUE, v |-> FALSE]
    ELSE IF DLt(b1, a1) THEN [abort |-> FALSE, v |-> DGt(b2, a1)]
    ELSE IF DLt(a1, b1) THEN [abort |-> FALSE, v |-> DGt(a2, b1)]
    ELSE [abort |-> FALSE, v |-> DNe(b2, b1) \/ DNe(a2, a1)]

\* A variant that looks at the width of b alone when the left edges coincide.
range_overlaps_b_only(a1, a2, b1, b2) ==
    IF DGt(a1, a2) \/ DGt(b1, b2) THEN [abort |-> TRUE, v |-> FALSE]
    ELSE IF DLt(b1, a1) THEN [abort |-> FALSE, v |-> DGt(b2, a1)]
    ELSE IF DLt(a1, b1) THEN [abort |-> FALSE, v |-> DGt(a2, b1)]
    ELSE [abort |-> FALSE, v |-> DNe(b2, b1)]

\* range_overlaps, lines 170-185: [abort, v]
range_overlaps(a1, a2, b1, b2) ==
    IF DGt(a1, a2) \/ DGt(b1, b2) THEN [abort |-> TRUE, v |-> FALSE]
    ELSE IF DLt(b1, a1) THEN [abort |-> FALSE, v |-> DGt(b2, a1)]
    ELSE IF DLt(a1, b1) THEN [abort |-> FALSE, v |-> DGt(a2, b1)]
    ELSE [abort |-> FALSE, v |-> DNe(b2, b1) /\ DNe(a2, a1)]

\* A variant that shifts the interval with the larger left edge.
cyclic_range_overlaps_shift_larger(a1, a2, b1, b2) ==
    LET a2n == IF DGt(a1, a2) THEN DAddInt(a2, 360) ELSE a2
        b2n == IF DGt(b1, b2) THEN DAddInt(b2, 360) ELSE b2
        first == range_overlaps(a1, a2n, b1, b2n)
    IN  IF first.abort \/ first.v THEN first
        ELSE IF DGt(a1, b1)
        THEN range_overlaps(DAddInt(a1, 360), DAddInt(a2n, 360), b1, b2n)
        ELSE range_overlaps(a1, a2n, DAddInt(b1, 360), DAddInt(b2n, 360))

\* cyclic_range_overlaps, lines 187-208: [abort, v]
cyclic_range_overlaps(a1, a2, b1, b2) ==
    LET a2n == IF DGt(a1, a2) THEN DAddInt(a2, 360) ELSE a2
        b2n == IF DGt(b1, b2) THEN DAddInt(b2, 360) ELSE b2
        first == range_overlaps(a1, a2n, b1, b2n)
    IN  IF first.abort \/ first.v THEN first
        ELSE IF DLt(a1, b1)
        THEN range_overlaps(DAddInt(a1, 360), DAddInt(a2n, 360), b1, b2n)
        ELSE range_overlaps(a1, a2n, DAddInt(b1, 360), DAddInt(b2n, 360))

\* A variant that leaves a2 and b2 as they are given.
range_overlaps_calls_as_given(a1, a2, b1, b2) ==
    LET first == range_overlaps(a1, a2, b1, b2)
    IN  IF first.abort \/ first.v THEN << <<a1, a2, b1, b2>> >>
        ELSE IF DLt(a1, b1)
        THEN << <<a1, a2, b1, b2>>,
                <<DAddInt(a1, 360), DAddInt(a2, 360), b1, b2>> >>
        ELSE << <<a1, a2, b1, b2>>,
                <<a1, a2, DAddInt(b1, 360), DAddInt(b2, 360)>> >>

\* cyclic_range_overlaps, lines 187-208: the arguments of the calls it makes
\* to range_overlaps, in order; the second call is made when the first one
\* returns false.
range_overlaps_calls(a1, a2, b1, b2) ==
    LET a2n == IF DGt(a1, a2) THEN DAddInt(a2, 360) ELSE a2
        b2n == IF DGt(b1, b2) THEN DAddInt(b2, 360) ELSE b2
        first == range_overlaps(a1, a2n, b1, b2n)
    IN  IF first.abort \/ first.v THEN << <<a1, a2n, b1, b2n>> >>
        ELSE IF DLt(a1, b1)
        THEN << <<a1, a2n, b1, b2n>>,
                <<DAddInt(a1, 360), DAddInt(a2n, 360), b1, b2n>> >>
        ELSE << <<a1, a2n, b1, b2n>>,
                <<a1, a2n, DAddInt(b1, 360), DAddInt(b2n, 360)>> >>

----------------------------------------------------------------------------
(* The range predicates applied to drawn intervals                         *)

LonPoints == {-180, -175, -170, -160, 0, 160, 170, 175, 180}

OverlapInputs ==
    (LonPoints \X LonPoints \X LonPoints \X LonPoints) \cup {<<-170, -160, 160, 210>>}

NoResult == [abort |-> FALSE, v |-> FALSE]

OverlapInit ==
    /\ ov_in \in OverlapInputs
    /\ ov_lin = [done |-> FALSE, ab |-> NoResult, ba |-> NoResult]
    /\ ov_cyc = [done |-> FALSE, ab |-> NoResult, ba |-> NoResult]
    /\ ov_calls = [ab |-> <<>>, ba |-> <<>>]

OverlapIdle ==
    /\ ov_in = <<0, 0, 0, 0>>
    /\ ov_lin = [done |-> FALSE, ab |-> NoResult, ba |-> NoResult]
    /\ ov_cyc = [done |-> FALSE, ab |-> NoResult, ba |-> NoResult]
    /\ ov_calls = [ab |-> <<>>, ba |-> <<>>]

ov_a1 == DFromInt(ov_in[1])
ov_a2 == DFromInt(ov_in[2])
ov_b1 == DFromInt(ov_in[3])
ov_b2 == DFromInt(ov_in[4])

ApplyRangeOverlaps ==
    /\ ~ov_lin.done
    /\ ov_lin' = [done |-> TRUE,
                  ab |-> range_overlaps(ov_a1, ov_a2, ov_b1, ov_b2),
                  ba |-> range_overlaps(ov_b1, ov_b2, ov_a1, ov_a2)]
    /\ UNCHANGED <<ov_in, ov_cyc, ov_calls, notOverlap>>

ApplyCyclicRangeOverlaps ==
    /\ ~ov_cyc.done
    /\ ov_cyc' = [done |-> TRUE,
                  ab |-> cyclic_range_overlaps(ov_a1, ov_a2, ov_b1, ov_b2),
                  ba |-> cyclic_range_overlaps(ov_b1, ov_b2, ov_a1, ov_a2)]
    /\ ov_calls' = [ab |-> range_overlaps_calls(ov_a1, ov_a2, ov_b1, ov_b2),
                    ba |-> range_overlaps_calls(ov_b1, ov_b2, ov_a1, ov_a2)]
    /\ UNCHANGED <<ov_in, ov_lin, notOverlap>>

OverlapNext == ApplyRangeOverlaps \/ ApplyCyclicRangeOverlaps

----------------------------------------------------------------------------
(* The envelope codec applied to drawn boxes                               *)

MAX_BITS_PER_VALUE == 32
LegalBits == {b \in 2 .. MAX_BITS_PER_VALUE : b % 2 = 0}

CodecLons == {-180, 0, 1, 120, 180}
CodecLats == {-90, 0, 1, 90}
Boxes == CodecLons \X CodecLats \X CodecLons \X CodecLats

CodecInit ==
    /\ cd_build \in Builds
    /\ cd_bits \in LegalBits
    /\ cd_box \in Boxes
    /\ cd_encoder = <<>>
    /\ cd_bytes = <<>>
    /\ cd_decoded = <<>>
    /\ cd_pc = "new"

CodecIdle ==
    /\ cd_build = [shift_ub |-> "count_masked", ndebug |-> FALSE]
    /\ cd_bits = 0
    /\ cd_box = <<0, 0, 0, 0>>
    /\ cd_encoder = <<>>
    /\ cd_bytes = <<>>
    /\ cd_decoded = <<>>
    /\ cd_pc = "idle"

Construct ==
    /\ cd_pc = "new"
    /\ cd_encoder' = EnvelopeEncoder(cd_bits, cd_build)
    /\ cd_pc' = "constructed"
    /\ UNCHANGED <<cd_build, cd_bits, cd_box, cd_bytes, cd_decoded, notCodec>>

Encode ==
    /\ cd_pc = "constructed"
    /\ \E r \in {encode(cd_encoder, cd_box[1], cd_box[2], cd_box[3], cd_box[4])} :
           IF r.abort
           THEN cd_pc' = "aborted" /\ UNCHANGED cd_bytes
           ELSE cd_pc' = "encoded" /\ cd_bytes' = r.bytes
    /\ UNCHANGED <<cd_build, cd_bits, cd_box, cd_encoder, cd_decoded, notCodec>>

Decode ==
    /\ cd_pc = "encoded"
    /\ \E r \in {decode(cd_encoder, cd_bytes, 0)} :
           IF r.abort
           THEN cd_pc' = "aborted" /\ UNCHANGED cd_decoded
           ELSE cd_pc' = "decoded" /\ cd_decoded' = r
    /\ UNCHANGED <<cd_build, cd_bits, cd_box, cd_encoder, cd_bytes, notCodec>>

CodecNext == Construct \/ Encode \/ Decode

----------------------------------------------------------------------------
(* The bit-packing applied to drawn integers                               *)

\* B-bit values: 0, 1, 2^B - 1, 2^(B-1) and 1010...10.
PackValues(B) ==
    { Zeros(INT_BITS), LowOnes(INT_BITS, 1), LowOnes(INT_BITS, B),
      Shl(LowOnes(INT_BITS, 1), B - 1),
      [i \in 1 .. INT_BITS |-> IF i > INT_BITS - B /\ (INT_BITS - i) % 2 = 1 THEN 1 ELSE 0] }
PackQuads(B) == PackValues(B) \X PackValues(B) \X PackValues(B) \X PackValues(B)

PackInit ==
    /\ pk_build \in Builds
    /\ pk_bits \in LegalBits
    /\ pk_quad \in PackQuads(pk_bits)
    /\ pk_bytes = <<>>
    /\ pk_out = <<>>
    /\ pk_pc = "new"

PackIdle ==
    /\ pk_build = [shift_ub |-> "count_masked", ndebug |-> FALSE]
    /\ pk_bits = 0
    /\ pk_quad = <<>>
    /\ pk_bytes = <<>>
    /\ pk_out = <<>>
    /\ pk_pc = "idle"

Pack ==
    /\ pk_pc = "new"
    /\ \E r \in {pack(EnvelopeEncoder(pk_bits, pk_build),
                       pk_quad[1], pk_quad[2], pk_quad[3], pk_quad[4])} :
           IF r.abort
           THEN pk_pc' = "aborted" /\ UNCHANGED pk_bytes
           ELSE pk_pc' = "packed" /\ pk_bytes' = r.bytes
    /\ UNCHANGED <<pk_build, pk_bits, pk_quad, pk_out, notPack>>

Unpack ==
    /\ pk_pc = "packed"
    /\ \E r \in {unpack(EnvelopeEncoder(pk_bits, pk_build), pk_bytes, 0)} :
           IF r.abort
           THEN pk_pc' = "aborted" /\ UNCHANGED pk_out
           ELSE pk_pc' = "unpacked" /\ pk_out' = <<r.w, r.s, r.e, r.n>>
    /\ UNCHANGED <<pk_build, pk_bits, pk_quad, pk_bytes, notPack>>

PackNext == Pack \/ Unpack

----------------------------------------------------------------------------
(* The filter extension: sf_init, sf_filter_object, sf_filter_blob, sf_free *)

Oids == {"a", "b"}

\* The build of the writer of the index rows.
WriterBuild == [shift_ub |-> "result_zero", ndebug |-> FALSE]

\* An index row holding the envelope as encode() stores it.
EncodedRow(bits, box) ==
    [present |-> TRUE,
     bytes |-> encode(EnvelopeEncoder(bits, WriterBuild), box[1], box[2], box[3], box[4]).bytes]

Row(bytes) == [present |-> TRUE, bytes |-> bytes]

\* (175, -5, 178, 5) and (30, 30, 40, 40) at 20 bits, (175, -5, 178, 5) at 2
\* and at 32 bits, and (30, 40, 40, 30), whose latitudes are out of order, at
\* 20 bits.
Row20a == Row(<<252, 113, 183, 142, 56, 254, 147, 232, 113, 199>>)
Row20b == Row(<<149, 85, 74, 170, 170, 156, 113, 203, 142, 57>>)
Row2 == Row(<<158>>)
Row32 == Row(<<252, 113, 199, 27, 120, 227, 142, 56, 254, 147, 233, 62, 135, 28, 113, 199>>)
RowUnordered == Row(<<149, 85, 75, 142, 56, 156, 113, 202, 170, 170>>)
\* A row whose envelope is the empty blob.
RowEmpty == Row(<<>>)
NoRow == [present |-> FALSE, bytes |-> <<>>]

\* feature_envelopes: blob_id -> envelope
Indexes ==
    { [a |-> Row20a, b |-> NoRow],
      [a |-> Row20b, b |-> Row20a],
      [a |-> Row2, b |-> Row20a],
      [a |-> Row20a, b |-> Row2],
      [a |-> Row32, b |-> NoRow],
      [a |-> RowUnordered, b |-> NoRow],
      [a |-> RowEmpty, b |-> Row2] }

\* The builds differ in what they do with 32-bit rows only.
FilterEnvs ==
    {[build |-> b, db_exists |-> TRUE, index |-> i] :
        b \in Builds, i \in {x \in Indexes : x.a = Row32}}
    \cup {[build |-> WriterBuild, db_exists |-> TRUE, index |-> i] :
        i \in {x \in Indexes : x.a # Row32}}
    \cup {[build |-> WriterBuild, db_exists |-> FALSE, index |-> [a |-> NoRow, b |-> NoRow]]}

Num(v) == [t |-> "num", v |-> v]
Sep == [t |-> "sep", v |-> 0]
Junk == [t |-> "junk", v |-> 0]

FilterArgs ==
    { <<Num(170), Sep, Num(-10), Sep, Num(-170), Sep, Num(10)>>,
      <<Num(10), Sep, Num(10), Sep, Num(20), Sep, Num(20)>>,
      <<Num(0), Num(10), Num(10), Num(0)>>,
      <<Num(1), Sep, Num(2), Sep, Num(3)>>,
      <<Num(1), Sep, Num(2), Sep, Sep, Num(3), Sep, Num(4)>>,
      <<Num(1), Sep, Num(2), Sep, Num(3), Sep, Num(4), Sep, Num(5)>>,
      <<Junk>>,
      <<>> }

Situations == {"LOFS_COMMIT", "LOFS_TAG", "LOFS_BEGIN_TREE", "LOFS_END_TREE", "LOFS_BLOB",
               "LOFS_UNKNOWN"}

Paths == { "ds/.table-dataset/feature/a1",
           "ds/.sno-dataset/feature/b2",
           "ds/.table-dataset/meta/title",
           ".table-dataset/feature/c3" }

Faults == {"none", "bind", "step"}
OobBytes == {0, 255}

MaxCalls == 2

\* sf_init, lines 271-280: the doubles the stream yields
RECURSIVE parse_rect(_)
parse_rect(toks) ==
    IF toks = <<>> \/ toks[1].t # "num" THEN <<>>
    ELSE <<toks[1].v>> \o parse_rect(IF Len(toks) >= 2 /\ toks[2].t = "sep"
                                      THEN SubSeq(toks, 3, Len(toks))
                                      ELSE Tail(toks))

\* A variant that accepts more than four numbers.
rect_size_at_least_four(rect) == Len(rect) >= 4

\* sf_init, line 281: rect.size() != 4 fails
rect_size_ok(rect) == Len(rect) = 4

\* std::string::find(needle) != npos
Contains(path, needle) ==
    \E i \in 1 .. (Len(path) - Len(needle) + 1) :
        SubSeq(path, i, i + Len(needle) - 1) = needle

\* A variant that looks for the directory names without their leading slash.
is_feature_path_no_slash(path) ==
    \/ Contains(path, ".sno-dataset/feature/")
    \/ Contains(path, ".table-dataset/feature/")

\* sf_filter_blob, lines 219-220
is_feature_path(path) ==
    \/ Contains(path, "/.sno-dataset/feature/")
    \/ Contains(path, "/.table-dataset/feature/")

\* A variant that accepts an envelope overlapping in either dimension.
envelope_overlaps_either(envelope, c) ==
    LET lon == cyclic_range_overlaps(envelope.w, envelope.e, DFromInt(c.w), DFromInt(c.e))
    IN  IF lon.abort \/ lon.v THEN lon
        ELSE range_overlaps(envelope.s, envelope.n, DFromInt(c.s), DFromInt(c.n))

\* sf_filter_blob, line 255: [abort, v]
envelope_overlaps(envelope, c) ==
    LET lon == cyclic_range_overlaps(envelope.w, envelope.e, DFromInt(c.w), DFromInt(c.e))
    IN  IF lon.abort \/ ~lon.v THEN lon
        ELSE range_overlaps(envelope.s, envelope.n, DFromInt(c.s), DFromInt(c.n))

NoEnvelope == [abort |-> FALSE, w |-> NaN, s |-> NaN, e |-> NaN, n |-> NaN]

BlobResult(mr, st, encoder, row, envelope) ==
    [mr |-> mr, stmt |-> st, encoder |-> encoder, row |-> row, envelope |-> envelope]

\* A variant that takes the database to be present always.
has_index_always(c) == TRUE

\* sf_filter_object, line 373
has_index(c) == c.db # "null"

\* A variant that constructs the decoder with its default precision.
bits_from_row_default(num_bytes) == 0

\* sf_filter_blob, line 248: bits_per_value of a row of num_bytes bytes
bits_from_row(num_bytes) == (num_bytes * 8) \div 4

\* A variant that returns without resetting the statement that holds a row.
classify_envelope_no_reset(c, stepped, reset, encoder, envelope) ==
    LET results == {envelope_overlaps(envelope, c)}
    IN  CHOOSE r \in
            { IF envelope.abort \/ overlaps.abort
              THEN BlobResult("abort", stepped, encoder, "present", envelope)
              ELSE BlobResult(IF overlaps.v THEN "MR_MATCH" ELSE "MR_NOT_MATCHED",
                              stepped, encoder, "present", envelope) :
              overlaps \in results } : TRUE

\* sf_filter_blob, lines 253-259: the row's envelope against the query
classify_envelope(c, stepped, reset, encoder, envelope) ==
    LET results == {envelope_overlaps(envelope, c)}
    IN  CHOOSE r \in
            { IF envelope.abort \/ overlaps.abort
              THEN BlobResult("abort", stepped, encoder, "present", envelope)
              ELSE BlobResult(IF overlaps.v THEN "MR_MATCH" ELSE "MR_NOT_MATCHED",
                              reset, encoder, "present", envelope) :
              overlaps \in results } : TRUE

\* sf_filter_blob, lines 212-260
sf_filter_blob(c, st, env, oid, path, fault, oob) ==
    IF ~is_feature_path(path)
    THEN BlobResult("MR_MATCH", st, c.encoder, "none", NoEnvelope)
    ELSE
    LET bound == [st EXCEPT !.binds = @ + 1]
        stepped == [bound EXCEPT !.steps = @ + 1, !.state = "row"]
        reset == [stepped EXCEPT !.resets = @ + 1, !.state = "reset"]
        row == env.index[oid]
    IN  IF fault = "bind" \/ st.state # "reset"
        THEN BlobResult("MR_ERROR", bound, c.encoder, "none", NoEnvelope)
        ELSE IF fault = "step"
        THEN BlobResult("MR_ERROR", reset, c.encoder, "none", NoEnvelope)
        ELSE IF ~row.present
        THEN BlobResult("MR_MATCH", reset, c.encoder, "absent", NoEnvelope)
        ELSE
        LET num_bytes == Len(row.bytes)
            encoder == IF c.encoder.null
                       THEN [null |-> FALSE, bits |-> bits_from_row(num_bytes)]
                       ELSE c.encoder
            decoded == {decode(EnvelopeEncoder(encoder.bits, env.build), row.bytes, oob)}
        IN  CHOOSE r \in {classify_envelope(c, stepped, reset, encoder, envelope) :
                             envelope \in decoded} : TRUE

\* A variant that shows the tree again when leaving it.
dispatch_show_end_tree(situation) ==
    IF situation \in {"LOFS_COMMIT", "LOFS_TAG", "LOFS_BEGIN_TREE", "LOFS_END_TREE"}
    THEN "LOFR_MARK_SEEN_AND_DO_SHOW"
    ELSE "abort"

\* sf_filter_object, lines 348-366: the situations other than LOFS_BLOB
dispatch(situation) ==
    IF situation \in {"LOFS_COMMIT", "LOFS_TAG", "LOFS_BEGIN_TREE"}
    THEN "LOFR_MARK_SEEN_AND_DO_SHOW"
    ELSE IF situation = "LOFS_END_TREE" THEN "LOFR_ZERO"
    ELSE "abort"

NullCtx ==
    [count |-> 0, match_count |-> 0, started_at |-> 0, db |-> "null",
     lookup_stmt |-> FALSE, w |-> 0, s |-> 0, e |-> 0, n |-> 0,
     encoder |-> [null |-> TRUE, bits |-> 0]]

\* A per-object call: its number, its situation, for a blob its pathname,
\* and what came of it.
NoCall ==
    [n |-> 0, situation |-> "none", path |-> "",
     result |-> "none", mr |-> "none", row |-> "none", envelope |-> NoEnvelope]

NoResources ==
    [ctx_news |-> 0, ctx_deletes |-> 0, db_opens |-> 0, db_closes |-> 0,
     prepares |-> 0, finalizes |-> 0, encoder_news |-> 0, encoder_deletes |-> 0]

FilterStart ==
    /\ sf_pc = "start"
    /\ sf_ret = -1
    /\ context = "unset"
    /\ ctx = NullCtx
    /\ stmt = [state |-> "none", binds |-> 0, steps |-> 0, resets |-> 0]
    /\ omit = [v |-> "LOFO_NONE", writes |-> 0]
    /\ sf_call = NoCall
    /\ sf_stderr = <<>>
    /\ sf_clock = 1
    /\ sf_res = NoResources

FilterInit ==
    /\ sf_env \in FilterEnvs
    /\ sf_arg \in FilterArgs
    /\ FilterStart

FilterIdle ==
    /\ sf_env = [build |-> WriterBuild, db_exists |-> FALSE,
                 index |-> [a |-> NoRow, b |-> NoRow]]
    /\ sf_arg = <<>>
    /\ sf_pc = "idle"
    /\ sf_ret = -1
    /\ context = "unset"
    /\ ctx = NullCtx
    /\ stmt = [state |-> "none", binds |-> 0, steps |-> 0, resets |-> 0]
    /\ omit = [v |-> "LOFO_NONE", writes |-> 0]
    /\ sf_call = NoCall
    /\ sf_stderr = <<>>
    /\ sf_clock = 1
    /\ sf_res = NoResources

\* sf_init, lines 266-325
SfInit ==
    /\ sf_pc = "start"
    /\ sf_clock' = sf_clock + 1
    /\ LET rect == parse_rect(sf_arg)
           made == [NullCtx EXCEPT !.w = rect[1], !.s = rect[2], !.e = rect[3], !.n = rect[4]]
       IN  IF ~rect_size_ok(rect)
           THEN /\ sf_stderr' = Append(sf_stderr, "invalid bounds")
                /\ sf_ret' = 2
                /\ sf_pc' = "failed"
                /\ UNCHANGED <<context, ctx, stmt, sf_res>>
           ELSE IF ~sf_env.db_exists
           THEN /\ sf_stderr' = Append(sf_stderr, "not available for this repository")
                /\ context' = "ctx"
                /\ ctx' = made
                /\ sf_res' = [sf_res EXCEPT !.ctx_news = @ + 1, !.db_opens = @ + 1,
                                            !.db_closes = @ + 1]
                /\ sf_ret' = 0
                /\ sf_pc' = "ready"
                /\ UNCHANGED stmt
           ELSE \E prepare_err \in BOOLEAN :
                IF prepare_err
                THEN /\ sf_stderr' = Append(sf_stderr, "preparing lookup")
                     /\ context' = "ctx"
                     /\ ctx' = [made EXCEPT !.db = "open"]
                     /\ sf_res' = [sf_res EXCEPT !.ctx_news = @ + 1, !.db_opens = @ + 1]
                     /\ sf_ret' = 1
                     /\ sf_pc' = "failed"
                     /\ UNCHANGED stmt
                ELSE /\ context' = "ctx"
                     /\ ctx' = [made EXCEPT !.db = "open", !.lookup_stmt = TRUE]
                     /\ stmt' = [stmt EXCEPT !.state = "reset"]
                     /\ sf_res' = [sf_res EXCEPT !.ctx_news = @ + 1, !.db_opens = @ + 1,
                                                 !.prepares = @ + 1]
                     /\ sf_ret' = 0
                     /\ sf_pc' = "ready"
                     /\ UNCHANGED sf_stderr
    /\ UNCHANGED <<sf_env, sf_arg, omit, sf_call, notFilter>>

PROGRESS_EVERY == 10000

\* A variant that shows a blob whatever its classification.
blob_flags_show_all(mr) ==
    IF mr \in {"MR_MATCH", "MR_NOT_MATCHED"} THEN "LOFR_MARK_SEEN_AND_DO_SHOW"
    ELSE "abort"

\* sf_filter_object, lines 378-389: what the call returns for a classification
blob_flags(mr) ==
    CASE mr = "MR_MATCH" -> "LOFR_MARK_SEEN_AND_DO_SHOW"
      [] mr = "MR_NOT_MATCHED" -> "LOFR_MARK_SEEN"
      [] OTHER -> "abort"

\* A variant that records the time at every call.
started_every_call(c, now) == now

\* sf_filter_object, lines 341-343: ctx->started_at after the check
started(c, now) == IF c.count = 0 THEN now ELSE c.started_at

\* sf_filter_object, lines 327-391, called with an object of the type the
\* situation names
SfFilterObject ==
    /\ sf_pc = "ready"
    /\ ctx.count < MaxCalls
    /\ sf_clock' = sf_clock + 1
    /\ \E situation \in Situations, path \in Paths, oid \in Oids,
          fault \in Faults, oob \in OobBytes :
        LET counted == [ctx EXCEPT !.count = @ + 1,
                                   !.started_at = started(ctx, sf_clock)]
            progress == IF counted.count % PROGRESS_EVERY = 0
                        THEN Append(sf_stderr, "Enumerating objects")
                        ELSE sf_stderr
            call == [NoCall EXCEPT !.n = sf_call.n + 1, !.situation = situation,
                                   !.path = IF situation = "LOFS_BLOB" THEN path ELSE ""]
        IN  IF situation # "LOFS_BLOB"
            THEN /\ ctx' = counted
                 /\ sf_call' = [call EXCEPT !.result = dispatch(situation)]
                 /\ sf_pc' = IF dispatch(situation) = "abort" THEN "aborted" ELSE "ready"
                 /\ sf_stderr' = IF dispatch(situation) = "abort"
                                 THEN Append(progress, "unknown filter_situation")
                                 ELSE progress
                 /\ UNCHANGED <<stmt, omit, sf_res>>
            ELSE IF ~has_index(counted)
            THEN /\ ctx' = counted
                 /\ sf_call' = [call EXCEPT !.result = "LOFR_MARK_SEEN_AND_DO_SHOW"]
                 /\ sf_stderr' = progress
                 /\ UNCHANGED <<sf_pc, stmt, omit, sf_res>>
            ELSE
            \E r \in {sf_filter_blob(counted, stmt, sf_env, oid, path, fault, oob)} :
                /\ stmt' = r.stmt
                /\ sf_res' = [sf_res EXCEPT
                                !.encoder_news = IF counted.encoder.null /\ ~r.encoder.null
                                                 THEN @ + 1 ELSE @]
                /\ sf_stderr' = IF r.mr = "MR_ERROR" THEN Append(progress, "spatial-filter: Error")
                                ELSE IF r.mr = "abort" /\ ~r.envelope.abort
                                THEN Append(progress, "Ranges don't make sense")
                                ELSE progress
                /\ ctx' = [counted EXCEPT !.encoder = r.encoder,
                                          !.match_count = IF r.mr = "MR_MATCH" THEN @ + 1 ELSE @]
                /\ omit' = IF r.mr = "MR_NOT_MATCHED"
                           THEN [v |-> "LOFO_OMIT", writes |-> omit.writes + 1]
                           ELSE omit
                /\ sf_pc' = IF r.mr \in {"MR_ERROR", "abort"} THEN "aborted" ELSE "ready"
                /\ sf_call' = [call EXCEPT
                                 !.mr = r.mr, !.row = r.row, !.envelope = r.envelope,
                                 !.result = blob_flags(r.mr)]
    /\ UNCHANGED <<sf_env, sf_arg, sf_ret, context, notFilter>>

\* A variant that leaves the decoder allocated.
releases_keep_encoder(c) ==
    [finalize |-> c.lookup_stmt, close |-> c.db # "null", delete_encoder |-> FALSE,
     delete_ctx |-> TRUE]

\* sf_free, lines 402-411: what it releases
releases(c) ==
    [finalize |-> c.lookup_stmt, close |-> c.db # "null",
     delete_encoder |-> ~c.encoder.null, delete_ctx |-> TRUE]

\* sf_free, lines 393-413
SfFree ==
    /\ sf_pc = "ready" \/ (sf_pc = "failed" /\ context = "ctx")
    /\ sf_clock' = sf_clock + 1
    /\ sf_stderr' = Append(sf_stderr, "spatial-filter: count")
    /\ sf_res' = [sf_res EXCEPT
                    !.finalizes = IF releases(ctx).finalize THEN @ + 1 ELSE @,
                    !.db_closes = IF releases(ctx).close THEN @ + 1 ELSE @,
                    !.encoder_deletes = IF releases(ctx).delete_encoder THEN @ + 1 ELSE @,
                    !.ctx_deletes = IF releases(ctx).delete_ctx THEN @ + 1 ELSE @]
    /\ stmt' = IF releases(ctx).finalize THEN [stmt EXCEPT !.state = "finalized"] ELSE stmt
    /\ sf_pc' = "freed"
    /\ UNCHANGED <<sf_env, sf_arg, sf_ret, context, ctx, omit, sf_call, notFilter>>

FilterNext == SfInit \/ SfFilterObject \/ SfFree

----------------------------------------------------------------------------
(* The tree walker: src/libkart/include/kart/tree_walker.hpp               *)

MaxNodes == 4

NameAt(i) == SubSeq("abcdefgh", i, i)

\* The forests of exactly m entries whose first entry is the i-th of its
\* parent: an entry is a blob, or a tree with its own entries, none included.
RECURSIVE ForestsOfSize(_, _)
ForestsOfSize(m, i) ==
    IF m = 0 THEN {<<>>}
    ELSE UNION { { <<e>> \o rest :
                     e \in (IF k = 1
                            THEN {[name |-> NameAt(i), type |-> "blob", children |-> <<>>]}
                            ELSE {})
                           \cup {[name |-> NameAt(i), type |-> "tree", children |-> ch] :
                                    ch \in ForestsOfSize(k - 1, 1)},
                     rest \in ForestsOfSize(m - k, i + 1) } : k \in 1 .. m }

Trees == UNION {ForestsOfSize(m, 1) : m \in 0 .. MaxNodes}

\* Dereferencing an iterator whose top frame is empty reads past the end of
\* an empty vector: the process dies, or the read yields some entry.
DerefUB == {"crash", "garbage_blob", "garbage_tree"}

WalkerInit ==
    /\ wk_tree \in Trees
    /\ wk_ub = "none"
    /\ entries_stack = <<>>
    /\ heads = <<>>
    /\ wk_out = <<>>
    /\ wk_pc = "new"

Last(q) == q[Len(q)]
Front(q) == SubSeq(q, 1, Len(q) - 1)

\* operator*, lines 60-63, on an iterator whose cursor is inside its frame
Deref(st, hd) == Last(st)[Last(hd) + 1]

\* Whether operator* has an entry to return
Dereferenceable(st, hd) == hd # <<>> /\ Last(hd) < Len(Last(st))

\* operator==, lines 114-127, on the heads of two iterators
IteratorEq(a, b) ==
    IF Len(a) # Len(b) THEN FALSE
    ELSE IF Len(a) = 0 THEN TRUE
    ELSE Last(a) = Last(b)

\* TreeWalker::end(), lines 163-166: the heads of the end sentinel
EndHeads == <<>>

\* A variant that names an entry by its filename alone.
_enter_tree_filename_only(st, hd, tree_) ==
    [st |-> Append(st, [i \in 1 .. Len(tree_) |->
                          [name |-> tree_[i].name, type |-> tree_[i].type,
                           children |-> tree_[i].children,
                           rel_path |-> tree_[i].name]]),
     hd |-> Append(hd, 0)]

\* _enter_tree, lines 135-149: [st, hd]
_enter_tree(st, hd, tree_) ==
    LET rel_path == IF Len(st) # 0 THEN Deref(st, hd).rel_path \o "/" ELSE ""
    IN  [st |-> Append(st, [i \in 1 .. Len(tree_) |->
                              [name |-> tree_[i].name, type |-> tree_[i].type,
                               children |-> tree_[i].children,
                               rel_path |-> rel_path \o tree_[i].name]]),
         hd |-> Append(hd, 0)]

\* operator++, lines 84-101: the loop that leaves exhausted frames
RECURSIVE Unwind(_, _)
Unwind(st, hd) ==
    IF hd = <<>> THEN [st |-> st, hd |-> hd]
    ELSE IF Last(hd) < Len(Last(st)) THEN [st |-> st, hd |-> hd]
    ELSE LET popped == Front(hd)
         IN  Unwind(Front(st),
                    IF popped # <<>>
                    THEN [popped EXCEPT ![Len(popped)] = @ + 1]
                    ELSE popped)

\* A variant that steps over a subtree entry without entering it.
Increment_skip_subtrees(st, hd) ==
    IF hd = <<>> THEN [st |-> st, hd |-> hd]
    ELSE Unwind(st, [hd EXCEPT ![Len(hd)] = @ + 1])

\* operator++, lines 70-105, on an iterator whose cursor is inside its frame
Increment(st, hd) ==
    IF hd = <<>> THEN [st |-> st, hd |-> hd]
    ELSE LET entry == Deref(st, hd)
             entered == _enter_tree(st, hd, entry.children)
         IN  IF entry.type = "tree"
             THEN Unwind(entered.st, entered.hd)
             ELSE Unwind(st, [hd EXCEPT ![Len(hd)] = @ + 1])

WalkerIdle ==
    /\ wk_tree = <<>>
    /\ wk_ub = "none"
    /\ entries_stack = <<>>
    /\ heads = <<>>
    /\ wk_out = <<>>
    /\ wk_pc = "idle"

\* TreeWalker::begin(), lines 159-162, and the constructor, lines 50-59
WalkerBegin ==
    /\ wk_pc = "new"
    /\ \E it \in {_enter_tree(<<>>, <<>>, wk_tree)} :
          /\ entries_stack' = it.st
          /\ heads' = it.hd
    /\ wk_pc' = "at"
    /\ UNCHANGED <<wk_tree, wk_ub, wk_out, notWalker>>

\* The caller's loop: it != end(), then *it
WalkerDeref ==
    /\ wk_pc = "at"
    /\ ~IteratorEq(heads, EndHeads)
    /\ IF Dereferenceable(entries_stack, heads)
       THEN /\ wk_out' = Append(wk_out, [path |-> Deref(entries_stack, heads).rel_path,
                                         type |-> Deref(entries_stack, heads).type])
            /\ wk_pc' = "yielded"
            /\ UNCHANGED wk_ub
       ELSE \E outcome \in DerefUB :
            /\ wk_ub' = outcome
            /\ IF outcome = "crash"
               THEN wk_pc' = "crashed" /\ UNCHANGED wk_out
               ELSE /\ wk_pc' = "yielded"
                    /\ wk_out' = Append(wk_out,
                                        [path |-> "?",
                                         type |-> IF outcome = "garbage_tree"
                                                  THEN "tree" ELSE "blob"])
    /\ UNCHANGED <<wk_tree, entries_stack, heads, notWalker>>

\* The caller's loop: ++it
WalkerIncrement ==
    /\ wk_pc = "yielded"
    /\ IF Dereferenceable(entries_stack, heads)
       THEN \E it \in {Increment(entries_stack, heads)} :
               /\ entries_stack' = it.st
               /\ heads' = it.hd
               /\ wk_pc' = "at"
       ELSE IF wk_ub = "garbage_tree"
       THEN \* tree_entry_to_object on an entry that names no object throws
            wk_pc' = "crashed" /\ UNCHANGED <<entries_stack, heads>>
       ELSE \E it \in {Unwind(entries_stack, [heads EXCEPT ![Len(heads)] = @ + 1])} :
               /\ entries_stack' = it.st
               /\ heads' = it.hd
               /\ wk_pc' = "at"
    /\ UNCHANGED <<wk_tree, wk_ub, wk_out, notWalker>>

\* The caller's loop ends: it == end()
WalkerFinish ==
    /\ wk_pc = "at"
    /\ IteratorEq(heads, EndHeads)
    /\ wk_pc' = "done"
    /\ UNCHANGED <<wk_tree, wk_ub, entries_stack, heads, wk_out, notWalker>>

\* ++it on the iterator that equals end(), lines 72-75
WalkerIncrementAtEnd ==
    /\ wk_pc = "done"
    /\ \E it \in {Increment(entries_stack, heads)} :
          /\ entries_stack' = it.st
          /\ heads' = it.hd
    /\ wk_pc' = "past_end"
    /\ UNCHANGED <<wk_tree, wk_ub, wk_out, notWalker>>

WalkerNext ==
    \/ WalkerBegin \/ WalkerDeref \/ WalkerIncrement \/ WalkerFinish
    \/ WalkerIncrementAtEnd

----------------------------------------------------------------------------
(* Several shims of one session: main(), lines 291-359                     *)

\* The shims started in the session; a helper is named after the shim whose
\* grandchild it is.
NumShims == 2
Shims == 1 .. NumShims

SessionInit ==
    /\ ss_pc = [s \in Shims |-> "connect"]
    /\ ss_first = [s \in Shims |-> "none"]
    /\ ss_retry = [s \in Shims |-> MAX_RETRY]
    /\ ss_forks = [s \in Shims |-> 0]
    /\ ss_child = [s \in Shims |-> "none"]
    /\ ss_grandchild = [s \in Shims |-> "none"]
    /\ ss_conn = [s \in Shims |-> 0]
    /\ ss_listener = 0
    /\ ss_execs = {}

SessionIdle ==
    /\ ss_pc = <<>>
    /\ ss_first = <<>>
    /\ ss_retry = <<>>
    /\ ss_forks = <<>>
    /\ ss_child = <<>>
    /\ ss_grandchild = <<>>
    /\ ss_conn = <<>>
    /\ ss_listener = 0
    /\ ss_execs = {}

\* connect(), line 309: it succeeds iff a helper listens on the path
SsConnect(s) ==
    /\ ss_pc[s] = "connect"
    /\ IF ss_listener # 0
       THEN /\ ss_first' = [ss_first EXCEPT ![s] = "ok"]
            /\ ss_conn' = [ss_conn EXCEPT ![s] = ss_listener]
            /\ ss_pc' = [ss_pc EXCEPT ![s] = "connected"]
       ELSE /\ ss_first' = [ss_first EXCEPT ![s] = "failed"]
            /\ ss_pc' = [ss_pc EXCEPT ![s] = "fork"]
            /\ UNCHANGED ss_conn
    /\ UNCHANGED <<ss_retry, ss_forks, ss_child, ss_grandchild, ss_listener, ss_execs,
                   notSession>>

\* fork(), line 313, in the shim
SsFork(s) ==
    /\ ss_pc[s] = "fork"
    /\ ss_forks' = [ss_forks EXCEPT ![s] = @ + 1]
    /\ ss_child' = [ss_child EXCEPT ![s] = "running"]
    /\ ss_pc' = [ss_pc EXCEPT ![s] = "wait"]
    /\ UNCHANGED <<ss_first, ss_retry, ss_grandchild, ss_conn, ss_listener, ss_execs,
                   notSession>>

\* fork(), line 318, in the intermediate child
SsChildFork(s) ==
    /\ ss_child[s] = "running"
    /\ ss_child' = [ss_child EXCEPT ![s] = "forked"]
    /\ ss_grandchild' = [ss_grandchild EXCEPT ![s] = "forked"]
    /\ UNCHANGED <<ss_pc, ss_first, ss_retry, ss_forks, ss_conn, ss_listener, ss_execs,
                   notSession>>

\* exit(0), line 337, in the intermediate child
SsChildExit(s) ==
    /\ ss_child[s] = "forked"
    /\ ss_child' = [ss_child EXCEPT ![s] = "exited"]
    /\ UNCHANGED <<ss_pc, ss_first, ss_retry, ss_forks, ss_grandchild, ss_conn,
                   ss_listener, ss_execs, notSession>>

\* wait(), line 341, and max_retry = 50, line 346
SsWait(s) ==
    /\ ss_pc[s] = "wait"
    /\ ss_child[s] = "exited"
    /\ ss_child' = [ss_child EXCEPT ![s] = "reaped"]
    /\ ss_retry' = [ss_retry EXCEPT ![s] = MAX_RETRY]
    /\ ss_pc' = [ss_pc EXCEPT ![s] = "poll"]
    /\ UNCHANGED <<ss_first, ss_forks, ss_grandchild, ss_conn, ss_listener, ss_execs,
                   notSession>>

\* execvp(), lines 321-335, in the grandchild
SsGrandchildExec(s) ==
    /\ ss_grandchild[s] = "forked"
    /\ \E ok \in BOOLEAN :
          IF ok
          THEN /\ ss_grandchild' = [ss_grandchild EXCEPT ![s] = "helper"]
               /\ ss_execs' = ss_execs \cup {s}
          ELSE /\ ss_grandchild' = [ss_grandchild EXCEPT ![s] = "exit1"]
               /\ UNCHANGED ss_execs
    /\ UNCHANGED <<ss_pc, ss_first, ss_retry, ss_forks, ss_child, ss_conn, ss_listener,
                   notSession>>

\* The helper binds the path it was given on line 322. What a helper does
\* when the path is taken is the helper's: it gives up, or takes the path over.
SsHelperBind(s) ==
    /\ ss_grandchild[s] = "helper"
    /\ IF ss_listener = 0
       THEN /\ ss_listener' = s
            /\ ss_grandchild' = [ss_grandchild EXCEPT ![s] = "listening"]
       ELSE \E takes_over \in BOOLEAN :
            IF takes_over
            THEN /\ ss_listener' = s
                 /\ ss_grandchild' = [ss_grandchild EXCEPT ![s] = "listening",
                                                           ![ss_listener] = "displaced"]
            ELSE /\ ss_grandchild' = [ss_grandchild EXCEPT ![s] = "bind_failed"]
                 /\ UNCHANGED ss_listener
    /\ UNCHANGED <<ss_pc, ss_first, ss_retry, ss_forks, ss_child, ss_conn, ss_execs,
                   notSession>>

\* The poll loop, lines 348-356: connect(), --max_retry, nanosleep()
SsPoll(s) ==
    /\ ss_pc[s] = "poll"
    /\ IF ss_listener # 0
       THEN /\ ss_conn' = [ss_conn EXCEPT ![s] = ss_listener]
            /\ ss_pc' = [ss_pc EXCEPT ![s] = "connected"]
            /\ UNCHANGED ss_retry
       ELSE /\ ss_retry' = [ss_retry EXCEPT ![s] = @ - 1]
            /\ ss_pc' = [ss_pc EXCEPT ![s] = IF retry_left(ss_retry[s] - 1)
                                             THEN "poll" ELSE "timeout"]
            /\ UNCHANGED ss_conn
    /\ UNCHANGED <<ss_first, ss_forks, ss_child, ss_grandchild, ss_listener, ss_execs,
                   notSession>>

SessionNext ==
    \E s \in Shims :
        \/ SsConnect(s) \/ SsFork(s) \/ SsChildFork(s) \/ SsChildExit(s) \/ SsWait(s)
        \/ SsGrandchildExec(s) \/ SsHelperBind(s) \/ SsPoll(s)

----------------------------------------------------------------------------
(* The wrappers over native handles: object.hpp, object.cpp                *)

\* The wrappers that exist at one time and the native handles a run hands
\* out.
NumWrappers == 3
MaxHandles == 2
Wrappers == 1 .. NumWrappers
Handles == 1 .. MaxHandles
Classes == {"Tree", "Blob", "Commit", "Tag", "Object"}

NoOp == [op |-> "none", dst |-> 0, old |-> 0]

ObjectInit ==
    /\ ob_class \in Classes
    /\ ob_live = [w \in Wrappers |-> FALSE]
    /\ ob_wrapped = [w \in Wrappers |-> 0]
    /\ ob_moved = [w \in Wrappers |-> FALSE]
    /\ ob_acquired = {}
    /\ ob_released = [h \in Handles |-> 0]
    /\ ob_assigned = FALSE
    /\ ob_last = NoOp

ObjectIdle ==
    /\ ob_class = "none"
    /\ ob_live = <<>>
    /\ ob_wrapped = <<>>
    /\ ob_moved = <<>>
    /\ ob_acquired = {}
    /\ ob_released = <<>>
    /\ ob_assigned = FALSE
    /\ ob_last = NoOp

\* The handle a lookup or a git_*_dup hands out next.
FreshHandle == Cardinality(ob_acquired) + 1

\* git_tree_free(x) and its siblings: nothing for a null pointer, one release
\* of the handle otherwise. A handle released before is released again (the
\* count stops at 2).
git_free(released, x) ==
    IF x = 0 THEN released
    ELSE [released EXCEPT ![x] = IF @ < 2 THEN @ + 1 ELSE 2]

\* Tree::Tree(const TreeEntry &, git_tree *x) and its siblings: the wrapper
\* takes the handle the caller acquired.
Wrap(w) ==
    /\ ~ob_live[w]
    /\ FreshHandle \in Handles
    /\ ob_live' = [ob_live EXCEPT ![w] = TRUE]
    /\ ob_wrapped' = [ob_wrapped EXCEPT ![w] = FreshHandle]
    /\ ob_moved' = [ob_moved EXCEPT ![w] = FALSE]
    /\ ob_acquired' = ob_acquired \cup {FreshHandle}
    /\ ob_last' = [op |-> "wrap", dst |-> w, old |-> 0]
    /\ UNCHANGED <<ob_class, ob_released, ob_assigned, notObject>>

\* Blob::Blob(): wrapped is value-initialised.
DefaultConstruct(w) ==
    /\ ob_class = "Blob"
    /\ ~ob_live[w]
    /\ ob_live' = [ob_live EXCEPT ![w] = TRUE]
    /\ ob_wrapped' = [ob_wrapped EXCEPT ![w] = 0]
    /\ ob_moved' = [ob_moved EXCEPT ![w] = FALSE]
    /\ ob_last' = [op |-> "default", dst |-> w, old |-> 0]
    /\ UNCHANGED <<ob_class, ob_acquired, ob_released, ob_assigned, notObject>>

\* Tree::Tree(const Tree &other): git_tree_dup(&wrapped, other.wrapped) hands
\* out a handle of its own, or fails and the constructor throws. The source
\* holds a handle that has not been released.
CopyConstruct(w, o) ==
    /\ ~ob_live[w]
    /\ ob_live[o]
    /\ ob_wrapped[o] # 0
    /\ ob_released[ob_wrapped[o]] = 0
    /\ \E ok \in BOOLEAN :
          IF ok
          THEN /\ FreshHandle \in Handles
               /\ ob_live' = [ob_live EXCEPT ![w] = TRUE]
               /\ ob_wrapped' = [ob_wrapped EXCEPT ![w] = FreshHandle]
               /\ ob_acquired' = ob_acquired \cup {FreshHandle}
               /\ ob_last' = [op |-> "copy", dst |-> w, old |-> 0]
          ELSE /\ ob_last' = [op |-> "copy_threw", dst |-> w, old |-> 0]
               /\ UNCHANGED <<ob_live, ob_wrapped, ob_acquired>>
    /\ ob_moved' = [ob_moved EXCEPT ![w] = FALSE]
    /\ UNCHANGED <<ob_class, ob_released, ob_assigned, notObject>>

\* Tree &Tree::operator=(const Tree &other): the old handle is freed if it is
\* not null, then the pointer of other is stored as it is.
CopyAssign(w, o) ==
    /\ ob_live[w]
    /\ ob_live[o]
    /\ ob_released' = (IF ob_wrapped[w] # 0
                        THEN git_free(ob_released, ob_wrapped[w])
                        ELSE ob_released)
    /\ ob_wrapped' = [ob_wrapped EXCEPT ![w] = ob_wrapped[o]]
    /\ ob_moved' = [ob_moved EXCEPT ![w] = FALSE]
    /\ ob_assigned' = TRUE
    /\ ob_last' = [op |-> "copy_assign", dst |-> w, old |-> ob_wrapped[w]]
    /\ UNCHANGED <<ob_class, ob_live, ob_acquired, notObject>>

\* Tree::Tree(Tree &&other): the pointer is taken and other is left null.
MoveConstruct(w, o) ==
    /\ ~ob_live[w]
    /\ ob_live[o]
    /\ ob_live' = [ob_live EXCEPT ![w] = TRUE]
    /\ ob_wrapped' = [ob_wrapped EXCEPT ![w] = ob_wrapped[o], ![o] = 0]
    /\ ob_moved' = [ob_moved EXCEPT ![w] = FALSE, ![o] = TRUE]
    /\ ob_last' = [op |-> "move", dst |-> w, old |-> 0]
    /\ UNCHANGED <<ob_class, ob_acquired, ob_released, ob_assigned, notObject>>

\* Tree &Tree::operator=(Tree &&other): the pointer of other is stored;
\* nothing is freed and other keeps its pointer.
MoveAssign(w, o) ==
    /\ ob_live[w]
    /\ ob_live[o]
    /\ w # o
    /\ ob_wrapped' = [ob_wrapped EXCEPT ![w] = ob_wrapped[o]]
    /\ ob_moved' = [ob_moved EXCEPT ![w] = FALSE, ![o] = TRUE]
    /\ ob_assigned' = TRUE
    /\ ob_last' = [op |-> "move_assign", dst |-> w, old |-> ob_wrapped[w]]
    /\ UNCHANGED <<ob_class, ob_live, ob_acquired, ob_released, notObject>>

\* Tree::~Tree(): git_tree_free(wrapped).
Destroy(w) ==
    /\ ob_live[w]
    /\ ob_released' = git_free(ob_released, ob_wrapped[w])
    /\ ob_live' = [ob_live EXCEPT ![w] = FALSE]
    /\ ob_wrapped' = [ob_wrapped EXCEPT ![w] = 0]
    /\ ob_moved' = [ob_moved EXCEPT ![w] = FALSE]
    /\ ob_last' = [op |-> "destroy", dst |-> w, old |-> ob_wrapped[w]]
    /\ UNCHANGED <<ob_class, ob_acquired, ob_assigned, notObject>>

ObjectNext ==
    \E w \in Wrappers :
        \/ Wrap(w)
        \/ DefaultConstruct(w)
        \/ Destroy(w)
        \/ \E o \in Wrappers :
              \/ CopyConstruct(w, o)
              \/ CopyAssign(w, o)
              \/ MoveConstruct(w, o)
              \/ MoveAssign(w, o)

----------------------------------------------------------------------------
(* The blob iterator: src/libkart/src/kart/blob_iterator.cpp               *)

BlobsInit ==
    /\ bi_tree \in Trees
    /\ bi_st = <<>>
    /\ bi_hd = <<>>
    /\ current_blob = ""
    /\ bi_out = <<>>
    /\ bi_pc = "new"

BlobsIdle ==
    /\ bi_tree = <<>>
    /\ bi_st = <<>>
    /\ bi_hd = <<>>
    /\ current_blob = ""
    /\ bi_out = <<>>
    /\ bi_pc = "idle"

\* operator== of two BlobIterators, lines 68-71, on the heads of their tree
\* iterators
BlobIteratorEq(a, b) == IteratorEq(a, b)

\* _advance_to_blob, lines 78-93: [st, hd, blob, ub]. ub is set when the loop
\* reads the type of an entry of an empty frame.
RECURSIVE _advance_to_blob(_, _, _)
_advance_to_blob(st, hd, blob) ==
    IF IteratorEq(hd, EndHeads)
    THEN [st |-> st, hd |-> hd, blob |-> blob, ub |-> FALSE]
    ELSE IF ~Dereferenceable(st, hd)
    THEN [st |-> st, hd |-> hd, blob |-> blob, ub |-> TRUE]
    ELSE IF Deref(st, hd).type = "blob"
    THEN [st |-> st, hd |-> hd, blob |-> Deref(st, hd).rel_path, ub |-> FALSE]
    ELSE LET next == Increment(st, hd)
         IN  _advance_to_blob(next.st, next.hd, blob)

\* What follows a read past the end of an empty frame: the process dies
\* (also when the entry read names no object), or the read yields an entry
\* that names some blob.
AfterAdvance(adv) ==
    IF ~adv.ub
    THEN /\ bi_st' = adv.st
         /\ bi_hd' = adv.hd
         /\ current_blob' = adv.blob
         /\ bi_pc' = "at"
    ELSE \E outcome \in DerefUB :
            IF outcome = "garbage_blob"
            THEN /\ bi_st' = adv.st
                 /\ bi_hd' = adv.hd
                 /\ current_blob' = "?"
                 /\ bi_pc' = "at"
            ELSE /\ bi_pc' = "crashed"
                 /\ UNCHANGED <<bi_st, bi_hd, current_blob>>

\* BlobWalker::begin(): BlobIterator(repo, tree), lines 25-28
BlobBegin ==
    /\ bi_pc = "new"
    /\ \E it \in {_enter_tree(<<>>, <<>>, bi_tree)} :
          \E adv \in {_advance_to_blob(it.st, it.hd, current_blob)} :
             AfterAdvance(adv)
    /\ UNCHANGED <<bi_tree, bi_out, notBlobs>>

\* The caller's loop: it != end(), then *it, lines 44-47
BlobDeref ==
    /\ bi_pc = "at"
    /\ ~BlobIteratorEq(bi_hd, EndHeads)
    /\ bi_out' = Append(bi_out, current_blob)
    /\ bi_pc' = "yielded"
    /\ UNCHANGED <<bi_tree, bi_st, bi_hd, current_blob, notBlobs>>

\* The caller's loop: ++it, lines 54-59
BlobIncrement ==
    /\ bi_pc = "yielded"
    /\ IF Dereferenceable(bi_st, bi_hd)
       THEN \E it \in {Increment(bi_st, bi_hd)} :
               \E adv \in {_advance_to_blob(it.st, it.hd, current_blob)} :
                  AfterAdvance(adv)
       ELSE \* operator++ of the tree iterator reads the entry of an empty
            \* frame again
            \E outcome \in DerefUB :
               IF outcome = "garbage_blob"
               THEN \E it \in {Unwind(bi_st, [bi_hd EXCEPT ![Len(bi_hd)] = @ + 1])} :
                       \E adv \in {_advance_to_blob(it.st, it.hd, current_blob)} :
                          AfterAdvance(adv)
               ELSE /\ bi_pc' = "crashed"
                    /\ UNCHANGED <<bi_st, bi_hd, current_blob>>
    /\ UNCHANGED <<bi_tree, bi_out, notBlobs>>

\* The caller's loop ends: it == end()
BlobFinish ==
    /\ bi_pc = "at"
    /\ BlobIteratorEq(bi_hd, EndHeads)
    /\ bi_pc' = "done"
    /\ UNCHANGED <<bi_tree, bi_st, bi_hd, current_blob, bi_out, notBlobs>>

BlobsNext == BlobBegin \/ BlobDeref \/ BlobIncrement \/ BlobFinish

----------------------------------------------------------------------------
(* Specifications                                                          *)

ShimIdle ==
    /\ environ = <<>>
    /\ argv = <<>>
    /\ fs = [exe |-> FALSE, sibling |-> FALSE, realpath |-> FALSE, resolved_sibling |-> FALSE]
    /\ helper = FALSE
    /\ pc = "idle"
    /\ image = "kart"
    /\ exec_argv = <<>>
    /\ exit_code = -1
    /\ killed_by = "none"
    /\ pgrp_leader = FALSE
    /\ nforks = 0
    /\ socket_fd = FALSE
    /\ connects = 0
    /\ connected = FALSE
    /\ max_retry = MAX_RETRY
    /\ child = "none"
    /\ grandchild = [state |-> "none", cloexec |-> {}, environ |-> <<>>, argv |-> <<>>]
    /\ semid = 0
    /\ sem = [exists |-> FALSE, val |-> 0]
    /\ handlers = [sig \in DOMAIN SIGNO |-> "SIG_DFL"]
    /\ in_usr1 = FALSE
    /\ usr1_pending = FALSE
    /\ msgs = <<>>
    /\ out = <<>>
    /\ pg_signals = <<>>
    /\ nAlrm = 0
    /\ nInt = 0
    /\ payload = [pid |-> 0, environ |-> <<>>, argv |-> <<>>, semid |-> <<>>]
    /\ helper_environ = <<>>
    /\ fds = <<>>

InitShim == ShimInit /\ OverlapIdle /\ CodecIdle /\ PackIdle /\ FilterIdle /\ WalkerIdle /\ SessionIdle /\ ObjectIdle /\ BlobsIdle
InitOverlap == OverlapInit /\ ShimIdle /\ CodecIdle /\ PackIdle /\ FilterIdle /\ WalkerIdle /\ SessionIdle /\ ObjectIdle /\ BlobsIdle
InitCodec == CodecInit /\ ShimIdle /\ OverlapIdle /\ PackIdle /\ FilterIdle /\ WalkerIdle /\ SessionIdle /\ ObjectIdle /\ BlobsIdle
InitPack == PackInit /\ ShimIdle /\ OverlapIdle /\ CodecIdle /\ FilterIdle /\ WalkerIdle /\ SessionIdle /\ ObjectIdle /\ BlobsIdle
InitFilter == FilterInit /\ ShimIdle /\ OverlapIdle /\ CodecIdle /\ PackIdle /\ WalkerIdle /\ SessionIdle /\ ObjectIdle /\ BlobsIdle
InitWalker == WalkerInit /\ ShimIdle /\ OverlapIdle /\ CodecIdle /\ PackIdle /\ FilterIdle /\ SessionIdle /\ ObjectIdle /\ BlobsIdle
InitSession == SessionInit /\ ShimIdle /\ OverlapIdle /\ CodecIdle /\ PackIdle /\ FilterIdle /\ WalkerIdle /\ ObjectIdle /\ BlobsIdle
InitObject == ObjectInit /\ ShimIdle /\ OverlapIdle /\ CodecIdle /\ PackIdle /\ FilterIdle /\ WalkerIdle /\ SessionIdle /\ BlobsIdle
InitBlobs == BlobsInit /\ ShimIdle /\ OverlapIdle /\ CodecIdle /\ PackIdle /\ FilterIdle /\ WalkerIdle /\ SessionIdle /\ ObjectIdle

SpecShim == InitShim /\ [][ShimNext]_vars
SpecOverlap == InitOverlap /\ [][OverlapNext]_vars
SpecCodec == InitCodec /\ [][CodecNext]_vars
SpecPack == InitPack /\ [][PackNext]_vars
SpecFilter == InitFilter /\ [][FilterNext]_vars
SpecWalker == InitWalker /\ [][WalkerNext]_vars
SpecSession == InitSession /\ [][SessionNext]_vars
SpecObject == InitObject /\ [][ObjectNext]_vars
SpecBlobs == InitBlobs /\ [][BlobsNext]_vars

----------------------------------------------------------------------------
(* Properties of the range predicates and the codec                        *)

CodecBox == [w |-> cd_box[1], s |-> cd_box[2], e |-> cd_box[3], n |-> cd_box[4]]

\* |orig - dec| <= range / (2^bits - 1)
ErrorWithin(orig, dec, range, bits) ==
    /\ ~dec.nan
    /\ LET diff == SAdd(SMulBig(SFromInt(orig), dec.d), SInt(~dec.n.neg, dec.n.mag))
       IN  BigCmp(BigMul(diff.mag, BigFromBits(Ones(bits))),
                  BigMulSmall(dec.d, range)) <= 0

\* C3. Envelope codec round-trip: for every box in the legal ranges and every
\* legal B, decode(encode(box)) is a box (w', s', e', n') with w' <= w,
\* s' <= s, e' >= e, n' >= n, each coordinate within (hi - lo) / (2^B - 1) of
\* the original.
C3_RoundTrip ==
    /\ cd_pc # "aborted"
    /\ cd_pc = "decoded" =>
          /\ DLe(cd_decoded.w, DFromInt(CodecBox.w))
          /\ DLe(cd_decoded.s, DFromInt(CodecBox.s))
          /\ DGe(cd_decoded.e, DFromInt(CodecBox.e))
          /\ DGe(cd_decoded.n, DFromInt(CodecBox.n))
          /\ ErrorWithin(CodecBox.w, cd_decoded.w, 360, cd_bits)
          /\ ErrorWithin(CodecBox.s, cd_decoded.s, 180, cd_bits)
          /\ ErrorWithin(CodecBox.e, cd_decoded.e, 360, cd_bits)
          /\ ErrorWithin(CodecBox.n, cd_decoded.n, 180, cd_bits)

\* The round trip for the precisions below 32 bits.
C3_RoundTripBelow32 == cd_bits < MAX_BITS_PER_VALUE => C3_RoundTrip

Constructed == cd_pc \in {"constructed", "encoded", "decoded", "aborted"}
\* An assertion of encode or encode_value failed.
EncodeAborted == cd_pc = "aborted" /\ cd_bytes = <<>>

\* The constants of the encoder are those of a B-bit precision.
ConstantsOf(enc, B) ==
    /\ enc.VALUE_MAX_INT = LowOnes(INT_BITS, B)
    /\ enc.BYTES_PER_ENVELOPE * 8 = 4 * B
    /\ enc.MAX_LO_BITS = LowOnes(UINT64_BITS, Min(UINT64_BITS, 4 * B))
    /\ enc.MAX_HI_BITS = LowOnes(UINT64_BITS, Max(0, 4 * B - UINT64_BITS))

\* C24. Legal precision range: for every even B with 2 <= B <= 32 the maximum
\* scaled value is 2^B - 1, the envelope is 4B/8 bytes long, the low and high
\* masks are 2^min(64,4B) - 1 and 2^max(0,4B-64) - 1, and no assertion of
\* encode fails for a box in range.
C24_LegalPrecisionRange ==
    /\ Constructed => ConstantsOf(cd_encoder, cd_bits)
    /\ ~EncodeAborted

\* The same for the precisions below 32 bits, on every build.
C24_LegalPrecisionBelow32 == cd_bits < MAX_BITS_PER_VALUE => C24_LegalPrecisionRange

\* The same at 32 bits on the builds whose oversized shifts yield zero.
C24_LegalPrecisionShiftZero == cd_build.shift_ub = "result_zero" => C24_LegalPrecisionRange

\* The low B bits of W, S, E and N, side by side: the 4B-bit number
\* W*2^(3B) + S*2^(2B) + E*2^B + N, most significant bit first.
Concatenated(quad, B) ==
    Resize(quad[1], B) \o Resize(quad[2], B) \o Resize(quad[3], B) \o Resize(quad[4], B)

\* The big-endian bytes of a number whose bit length is a multiple of 8.
BigEndianBytes(x) ==
    [k \in 1 .. (Len(x) \div 8) |-> BitsToNat(SubSeq(x, 8 * (k - 1) + 1, 8 * k))]

Packed == pk_pc \in {"packed", "unpacked"}

\* C25. Bit-packing is lossless and ordered: for every even B and every
\* quadruple (W, S, E, N) of B-bit unsigned integers, packing yields the
\* big-endian bytes of W*2^(3B) + S*2^(2B) + E*2^B + N, 4B/8 of them (10 at
\* B = 20), and unpacking those bytes returns exactly (W, S, E, N).
C25_BitPacking ==
    /\ pk_pc # "aborted"
    /\ Packed =>
          /\ pk_bytes = BigEndianBytes(Concatenated(pk_quad, pk_bits))
          /\ Len(pk_bytes) * 8 = 4 * pk_bits
          /\ pk_bits = DEFAULT_BITS_PER_VALUE => Len(pk_bytes) = 10
    /\ pk_pc = "unpacked" => pk_out = pk_quad

\* The same for the precisions below 32 bits, on every build.
C25_BitPackingBelow32 == pk_bits < MAX_BITS_PER_VALUE => C25_BitPacking

\* The same at 32 bits on the builds whose oversized shifts yield zero.
C25_BitPackingShiftZero == pk_build.shift_ub = "result_zero" => C25_BitPacking

\* At 32 bits with the shift count masked, packing aborts on MAX_HI_BITS = 0,
\* and without assertions unpacking masks every value to 0.
C25_Witness32Aborted ==
    /\ pk_bits = MAX_BITS_PER_VALUE
    /\ pk_pc = "aborted"

C25_Witness32Zeroed ==
    /\ pk_bits = MAX_BITS_PER_VALUE
    /\ pk_pc = "unpacked"
    /\ pk_quad[1] = Ones(INT_BITS)
    /\ pk_out = <<Zeros(INT_BITS), Zeros(INT_BITS), Zeros(INT_BITS), Zeros(INT_BITS)>>

C25_WitnessHighBytes ==
    /\ pk_bits = DEFAULT_BITS_PER_VALUE
    /\ pk_pc = "unpacked"
    /\ pk_quad = <<LowOnes(INT_BITS, pk_bits), Zeros(INT_BITS), Zeros(INT_BITS), LowOnes(INT_BITS, 1)>>
    /\ pk_bytes = <<255, 255, 240, 0, 0, 0, 0, 0, 0, 1>>
    /\ pk_out = pk_quad

C24_Witness32 ==
    /\ cd_bits = MAX_BITS_PER_VALUE
    /\ Constructed
    /\ BitsIsZero(cd_encoder.VALUE_MAX_INT)
    /\ BitsIsZero(cd_encoder.MAX_HI_BITS)

OvOrdered == ov_in[1] <= ov_in[2] /\ ov_in[3] <= ov_in[4]
OvLongitudes == \A i \in 1 .. 4 : ov_in[i] \in -180 .. 180

\* C4. Range-overlap symmetry: range_overlaps(a, b) = range_overlaps(b, a) for
\* ordered intervals, and cyclic_range_overlaps(a, b) =
\* cyclic_range_overlaps(b, a) for longitude intervals, equal left edges
\* included.
C4_OverlapSymmetry ==
    /\ (ov_lin.done /\ OvOrdered) =>
          /\ ~ov_lin.ab.abort /\ ~ov_lin.ba.abort
          /\ ov_lin.ab.v = ov_lin.ba.v
    /\ (ov_cyc.done /\ OvLongitudes) =>
          /\ ~ov_cyc.ab.abort /\ ~ov_cyc.ba.abort
          /\ ov_cyc.ab.v = ov_cyc.ba.v

C4_Witness ==
    /\ ov_lin.done /\ ov_cyc.done
    /\ OvOrdered /\ OvLongitudes
    /\ ov_in[1] = ov_in[3]
    /\ ov_in[1] = ov_in[2]
    /\ ov_in[3] < ov_in[4]
    /\ ~ov_lin.ab.v /\ ~ov_cyc.ba.v

\* Linear overlap of the normalised intervals, b moved by 360 * k degrees.
ShiftedOverlap(k) ==
    LET a2n == IF ov_in[1] > ov_in[2] THEN ov_in[2] + 360 ELSE ov_in[2]
        b2n == IF ov_in[3] > ov_in[4] THEN ov_in[4] + 360 ELSE ov_in[4]
    IN  range_overlaps(ov_a1, DFromInt(a2n),
                       DFromInt(ov_in[3] + 360 * k), DFromInt(b2n + 360 * k)).v

\* C5. Cyclic overlap is complete and sound: for longitude intervals it holds
\* iff the normalised intervals overlap linearly with b moved by -360, 0 or
\* 360 degrees; ([170,-170],[175,-175]) overlaps, ([-170,-160],[160,170])
\* does not, ([-170,-160],[160,210]) does.
C5_CyclicOverlap ==
    ov_cyc.done =>
        /\ OvLongitudes => (ov_cyc.ab.v <=> \E k \in {-1, 0, 1} : ShiftedOverlap(k))
        /\ ov_in = <<170, -170, 175, -175>> => ov_cyc.ab.v
        /\ ov_in = <<-170, -160, 160, 170>> => ~ov_cyc.ab.v
        /\ ov_in = <<-170, -160, 160, 210>> => ov_cyc.ab.v

C5_Witness ==
    /\ ov_cyc.done
    /\ OvLongitudes
    /\ ov_in[1] < ov_in[3]
    /\ ~ShiftedOverlap(0)
    /\ ShiftedOverlap(-1)
    /\ ov_cyc.ab.v

\* The arguments of a call to range_overlaps that pass its first test.
CallOrdered(c) == DLe(c[1], c[2]) /\ DLe(c[3], c[4])

\* The result of the call: the last call made gives the result of
\* cyclic_range_overlaps.
CallResult(c) == range_overlaps(c[1], c[2], c[3], c[4])

CallsMakeSense(calls, result) ==
    /\ Len(calls) \in {1, 2}
    /\ \A i \in 1 .. Len(calls) :
          /\ CallOrdered(calls[i])
          /\ ~CallResult(calls[i]).abort
    /\ result = CallResult(calls[Len(calls)])
    /\ ~result.abort

\* C38. Cyclic overlap never aborts on legal longitudes: for all a1, a2, b1,
\* b2 in [-180, 180], both calls that cyclic_range_overlaps makes to
\* range_overlaps receive intervals with a1 <= a2 and b1 <= b2 (after
\* normalisation and after the +360 shift), so the "ranges don't make sense"
\* abort in range_overlaps is unreachable from the longitude test.
C38_CyclicNeverAborts ==
    (ov_cyc.done /\ OvLongitudes) =>
        /\ CallsMakeSense(ov_calls.ab, ov_cyc.ab)
        /\ CallsMakeSense(ov_calls.ba, ov_cyc.ba)

\* The call c was made with the degrees d.
CallIs(c, d) == \A i \in 1 .. 4 : DCmp(c[i], DFromInt(d[i])) = 0

\* The first interval crosses the antimeridian, the first call returned
\* false and the second was made with the other interval moved by 360
\* degrees.
C38_Witness ==
    /\ ov_cyc.done
    /\ ov_in = <<170, -170, -180, -175>>
    /\ Len(ov_calls.ab) = 2
    /\ CallIs(ov_calls.ab[1], <<170, 190, -180, -175>>)
    /\ CallIs(ov_calls.ab[2], <<170, 190, 180, 185>>)
    /\ ov_cyc.ab = [abort |-> FALSE, v |-> TRUE]

\* The widest wrap: a2 + 360 equals a1.
C38_WitnessWidest ==
    /\ ov_cyc.done
    /\ ov_in[1] = 180 /\ ov_in[2] = -180
    /\ ov_in[3] > ov_in[4]
    /\ Len(ov_calls.ab) = 2
    /\ ~ov_cyc.ab.abort /\ ~ov_cyc.ba.abort

OvSameLeftEdge == ov_lin.done /\ OvOrdered /\ ov_a1 = ov_b1

\* C23 as stated. Linear overlap with coincident left edges: for ordered
\* intervals (a1, a2) and (b1, b2) with a1 = b1, range_overlaps returns true
\* iff at least one of the two intervals has non-zero width.
C23_EitherNonZeroWidth ==
    OvSameLeftEdge =>
        /\ ~ov_lin.ab.abort
        /\ ov_lin.ab.v <=> (ov_in[2] # ov_in[1] \/ ov_in[4] # ov_in[3])

\* C23. Linear overlap with coincident left edges: for ordered intervals
\* (a1, a2) and (b1, b2) with a1 = b1, range_overlaps returns true iff both
\* intervals have non-zero width.
C23_BothNonZeroWidth ==
    OvSameLeftEdge =>
        /\ ~ov_lin.ab.abort
        /\ ov_lin.ab.v <=> (ov_in[2] # ov_in[1] /\ ov_in[4] # ov_in[3])

C23_Witness ==
    /\ OvSameLeftEdge
    /\ ov_in[1] < ov_in[2]
    /\ ov_in[3] = ov_in[4]
    /\ ~ov_lin.ab.v /\ ~ov_lin.ba.v

----------------------------------------------------------------------------
(* Properties of the filter extension                                      *)

RectOk == Len(parse_rect(sf_arg)) = 4

\* Some stretch of the path is one of the two feature directory names.
NamesFeatureDirectory(path) ==
    \E i \in 1 .. Len(path) : \E j \in i .. Len(path) :
        SubSeq(path, i, j) \in {"/.sno-dataset/feature/", "/.table-dataset/feature/"}

\* C6. Match-all on missing index: if the sidecar database cannot be opened,
\* init returns success with a context whose database handle is null, and
\* every BLOB call on that context returns mark-seen + show, never sets the
\* omit flag and never executes the lookup statement, whatever the path.
C6_MatchAllOnMissingIndex ==
    (RectOk /\ ~sf_env.db_exists /\ sf_pc # "start") =>
        /\ sf_ret = 0
        /\ context = "ctx"
        /\ ctx.db = "null"
        /\ sf_call.situation = "LOFS_BLOB" => sf_call.result = "LOFR_MARK_SEEN_AND_DO_SHOW"
        /\ omit = [v |-> "LOFO_NONE", writes |-> 0]
        /\ stmt.binds = 0 /\ stmt.steps = 0

C6_Witness ==
    /\ ~sf_env.db_exists
    /\ sf_call.n = MaxCalls
    /\ sf_call.situation = "LOFS_BLOB"
    /\ NamesFeatureDirectory(sf_call.path)
    /\ sf_call.result = "LOFR_MARK_SEEN_AND_DO_SHOW"
    /\ ctx.match_count = 0

\* C7. Non-feature bypass: for a path that contains neither
\* '/.sno-dataset/feature/' nor '/.table-dataset/feature/', classify returns
\* MATCH and leaves the database, the prepared statement and the decoder
\* untouched: no bind, no step, no decoder construction.
C7_NonFeatureBypass ==
    [][ ( /\ sf_call'.n = sf_call.n + 1
          /\ sf_call'.situation = "LOFS_BLOB"
          /\ ctx.db # "null"
          /\ ~NamesFeatureDirectory(sf_call'.path) )
        => ( /\ sf_call'.mr = "MR_MATCH"
             /\ stmt' = stmt
             /\ sf_res' = sf_res
             /\ ctx'.db = ctx.db
             /\ ctx'.lookup_stmt = ctx.lookup_stmt
             /\ ctx'.encoder = ctx.encoder ) ]_vars

C7_Witness ==
    /\ sf_call.situation = "LOFS_BLOB"
    /\ sf_call.path = ".table-dataset/feature/c3"
    /\ sf_call.mr = "MR_MATCH"
    /\ ctx.db = "open"
    /\ stmt = [state |-> "reset", binds |-> 0, steps |-> 0, resets |-> 0]
    /\ ctx.encoder.null

\* C26. Bad rectangle argument: if the filter argument does not yield exactly
\* four numbers, init fails with code 2 and a diagnostic, allocates no context,
\* leaves the caller's context pointer unchanged and opens no database.
C26_BadRectangle ==
    (sf_pc # "start" /\ ~RectOk) =>
        /\ sf_pc = "failed"
        /\ sf_ret = 2
        /\ sf_stderr = <<"invalid bounds">>
        /\ context = "unset"
        /\ ctx = NullCtx
        /\ sf_res = NoResources
        /\ stmt.state = "none"

C26_Witness ==
    /\ Len(parse_rect(sf_arg)) = 5
    /\ sf_pc = "failed"
    /\ sf_ret = 2
    /\ context = "unset"

C26_WitnessTooFew ==
    /\ Len(parse_rect(sf_arg)) = 2
    /\ Len(sf_arg) > 4
    /\ sf_pc = "failed"
    /\ sf_ret = 2

\* C27. Filter resource release: for every context that init publishes,
\* match-all mode and a failed statement preparation included, and any number
\* of per-object calls, free finalises the statement if one was prepared,
\* closes the database if one is open, deletes the decoder if one was
\* constructed and deletes the context, each exactly once, so that nothing
\* init or a per-object call acquired remains.
C27_ResourceRelease ==
    /\ context = "ctx" => sf_res.ctx_news = 1
    /\ sf_pc = "freed" =>
          /\ context = "ctx"
          /\ sf_res.ctx_deletes = 1
          /\ sf_res.finalizes = sf_res.prepares
          /\ sf_res.finalizes = (IF ctx.lookup_stmt THEN 1 ELSE 0)
          /\ sf_res.db_closes = sf_res.db_opens
          /\ sf_res.db_opens = 1
          /\ sf_res.encoder_deletes = sf_res.encoder_news
          /\ sf_res.encoder_deletes = (IF ctx.encoder.null THEN 0 ELSE 1)
          /\ stmt.state \in {"none", "finalized"}

C27_Witness ==
    /\ sf_pc = "freed"
    /\ ctx.count = MaxCalls
    /\ sf_res = [ctx_news |-> 1, ctx_deletes |-> 1, db_opens |-> 1, db_closes |-> 1,
                 prepares |-> 1, finalizes |-> 1, encoder_news |-> 1, encoder_deletes |-> 1]

C27_WitnessMatchAll ==
    /\ sf_pc = "freed"
    /\ ~sf_env.db_exists
    /\ ctx.count > 0
    /\ sf_res = [NoResources EXCEPT !.ctx_news = 1, !.ctx_deletes = 1,
                                    !.db_opens = 1, !.db_closes = 1]

C27_WitnessPrepareFailed ==
    /\ sf_pc = "freed"
    /\ sf_ret = 1
    /\ sf_res = [NoResources EXCEPT !.ctx_news = 1, !.ctx_deletes = 1,
                                    !.db_opens = 1, !.db_closes = 1]

\* A per-object call that reaches sf_filter_blob.
ClassifyCall ==
    /\ sf_call'.n = sf_call.n + 1
    /\ sf_call'.situation = "LOFS_BLOB"
    /\ ctx.db # "null"

\* C28. Clean cursor invariant: the prepared lookup statement is in the reset
\* state at the start of every classify call; every call that steps the
\* statement (no row, one row, or step error) resets it before returning, so
\* a bind is never issued on a statement that still holds a row.
C28_CleanCursor ==
    [][ ClassifyCall =>
          /\ stmt.state = "reset"
          /\ stmt.resets = stmt.steps
          /\ stmt'.steps \in {stmt.steps, stmt.steps + 1}
          /\ (stmt'.steps = stmt.steps + 1 /\ sf_call'.mr # "abort") =>
                /\ stmt'.binds = stmt.binds + 1
                /\ stmt'.resets = stmt.resets + 1
                /\ stmt'.state = "reset"
          /\ stmt'.steps = stmt.steps => stmt'.state = "reset" ]_vars

\* Two calls found a row, and the second bind met a reset statement.
C28_Witness ==
    /\ sf_call.n = 2
    /\ sf_call.row = "present"
    /\ sf_call.mr \in {"MR_MATCH", "MR_NOT_MATCHED"}
    /\ stmt = [state |-> "reset", binds |-> 2, steps |-> 2, resets |-> 2]

\* A step error is reset before the call returns MR_ERROR.
C28_WitnessStepError ==
    /\ sf_call.mr = "MR_ERROR"
    /\ stmt.steps = stmt.binds
    /\ stmt.resets = stmt.steps
    /\ stmt.steps > 0
    /\ stmt.state = "reset"

\* The call that aborts inside decode or the overlap test never returns, and
\* leaves the row in place.
C28_WitnessAbortHoldsRow ==
    /\ sf_pc = "aborted"
    /\ sf_call.mr = "abort"
    /\ stmt.state = "row"

PerObjectCall == sf_call'.n = sf_call.n + 1

\* C29. Session counters: after n per-object calls on one context the tested
\* count is n, a call that aborts included; the start time was recorded once,
\* at the first call; match_count grows by one at each BLOB call classified
\* MATCH while an index is present and at no other call, so that
\* match_count <= count, and match_count stays 0 in match-all mode.
C29_SessionCounters ==
    /\ [](ctx.count = sf_call.n)
    /\ [](ctx.match_count <= ctx.count)
    /\ []((context = "ctx" /\ ctx.db = "null") => ctx.match_count = 0)
    /\ [](ctx.count = 0 => ctx.started_at = 0)
    /\ [][ PerObjectCall =>
              /\ ctx'.count = ctx.count + 1
              /\ ctx'.started_at = (IF sf_call.n = 0 THEN sf_clock ELSE ctx.started_at)
              /\ ctx'.started_at # 0
              /\ ctx'.match_count =
                    (IF ClassifyCall /\ sf_call'.mr = "MR_MATCH"
                     THEN ctx.match_count + 1 ELSE ctx.match_count) ]_vars
    /\ [][ ~PerObjectCall =>
              (ctx'.count = ctx.count /\ ctx'.match_count = ctx.match_count
               /\ ctx'.started_at = ctx.started_at) ]_vars

C29_Witness ==
    /\ sf_call.n = MaxCalls
    /\ ctx.count = MaxCalls
    /\ ctx.match_count = 1
    /\ sf_call.mr = "MR_MATCH"
    /\ ctx.started_at = 2
    /\ sf_clock = MaxCalls + 2

C29_WitnessMatchAll ==
    /\ ctx.db = "null"
    /\ ctx.count = MaxCalls
    /\ sf_call.situation = "LOFS_BLOB"
    /\ ctx.match_count = 0

C29_WitnessAbortCounted ==
    /\ sf_pc = "aborted"
    /\ sf_call.situation = "LOFS_UNKNOWN"
    /\ ctx.count = MaxCalls

\* The B of the context's decoder.
DecoderBits(c) == EnvelopeEncoder(c.encoder.bits, sf_env.build).BITS_PER_VALUE
\* The B that a row of the given bytes fixes when it is the first one read.
BitsOfFirstRow(bytes) ==
    IF Len(bytes) = 0 THEN DEFAULT_BITS_PER_VALUE ELSE 2 * Len(bytes)
\* What the context's decoder makes of a row.
DecodedBy(c, row, oob) ==
    decode(EnvelopeEncoder(DecoderBits(c), sf_env.build), row.bytes, oob)
\* The index rows the last call may have read.
RowsRead == {sf_env.index[oid] : oid \in {o \in Oids : sf_env.index[o].present}}

\* C35. Decoder fixed by first row: within one context the decoder is
\* constructed at most once, when the first index row is read, with B twice
\* that row's byte length, or the default 20 for a row of length 0; it is
\* never replaced, and every later row is decoded with that B whatever its
\* own length.
C35_DecoderFixedByFirstRow ==
    /\ [](sf_res.encoder_news = (IF ctx.encoder.null THEN 0 ELSE 1))
    /\ [][ ~ctx.encoder.null => ctx'.encoder = ctx.encoder ]_vars
    /\ [][ (ctx.encoder.null /\ ~ctx'.encoder.null) =>
              /\ ClassifyCall /\ sf_call'.row = "present"
              /\ \E row \in RowsRead :
                    /\ ctx'.encoder.bits = 2 * Len(row.bytes)
                    /\ DecoderBits(ctx') = BitsOfFirstRow(row.bytes)
                    /\ \E oob \in OobBytes : sf_call'.envelope = DecodedBy(ctx', row, oob) ]_vars
    /\ [][ (ClassifyCall /\ sf_call'.row = "present") =>
              /\ ~ctx'.encoder.null
              /\ \E row \in RowsRead : \E oob \in OobBytes :
                    sf_call'.envelope = DecodedBy(ctx', row, oob) ]_vars
    /\ [][ (ClassifyCall /\ sf_call'.row # "present") => ctx'.encoder = ctx.encoder ]_vars

\* A 10-byte row was decoded by the decoder that a 1-byte row had fixed at
\* B = 2.
C35_Witness ==
    /\ sf_env.index = [a |-> Row2, b |-> Row20a]
    /\ sf_call.n = 2
    /\ sf_call.row = "present"
    /\ DecoderBits(ctx) = 2
    /\ sf_call.envelope = decode(EnvelopeEncoder(2, sf_env.build), Row20a.bytes, 0)

\* A first row of length 0 fixed the default precision.
C35_WitnessEmptyFirstRow ==
    /\ sf_env.index.a = RowEmpty
    /\ sf_call.n = 1
    /\ sf_call.row = "present"
    /\ ctx.encoder = [null |-> FALSE, bits |-> 0]
    /\ DecoderBits(ctx) = DEFAULT_BITS_PER_VALUE

Query == <<ctx.w, ctx.s, ctx.e, ctx.n>>
QueryOrdered == ctx.s <= ctx.n
EnvelopeOrdered == sf_call.envelope.s.nan \/ DLe(sf_call.envelope.s, sf_call.envelope.n)
LongitudesOverlap ==
    cyclic_range_overlaps(sf_call.envelope.w, sf_call.envelope.e,
                          DFromInt(ctx.w), DFromInt(ctx.e)).v
LatitudesOverlap ==
    range_overlaps(sf_call.envelope.s, sf_call.envelope.n,
                   DFromInt(ctx.s), DFromInt(ctx.n)).v
DecodedAt20(row) == decode(EnvelopeEncoder(0, WriterBuild), row.bytes, 0)

C10_NonBlobDispatch ==
    [][ ( sf_call'.n = sf_call.n + 1 /\ sf_call'.situation # "LOFS_BLOB" )
        => ( /\ sf_call'.situation \in {"LOFS_COMMIT", "LOFS_TAG", "LOFS_BEGIN_TREE"}
                => (sf_call'.result = "LOFR_MARK_SEEN_AND_DO_SHOW" /\ sf_pc' = "ready")
             /\ sf_call'.situation = "LOFS_END_TREE"
                => (sf_call'.result = "LOFR_ZERO" /\ sf_pc' = "ready")
             /\ sf_call'.situation = "LOFS_UNKNOWN"
                => (sf_call'.result = "abort" /\ sf_pc' = "aborted")
             /\ omit' = omit
             /\ ctx'.match_count = ctx.match_count ) ]_vars

C10_Witness ==
    /\ sf_call.n = 2
    /\ sf_call.situation = "LOFS_END_TREE"
    /\ sf_call.result = "LOFR_ZERO"
    /\ sf_pc = "ready"
    /\ sf_env.db_exists
    /\ omit.v = "LOFO_OMIT"
    /\ ctx.match_count = 0

\* C11. Dispatch of BLOB with an index present: a MATCH classification returns
\* mark-seen + show, increments match_count by one and does not write the omit
\* flag; an OMIT classification sets the omit flag and returns mark-seen
\* without show, leaving match_count unchanged; an ERROR classification (bind
\* or step failure) aborts the process rather than returning any flags.
C11_BlobDispatch ==
    [][ ( /\ sf_call'.n = sf_call.n + 1
          /\ sf_call'.situation = "LOFS_BLOB"
          /\ ctx.db # "null" )
        => ( /\ sf_call'.mr = "MR_MATCH" =>
                  /\ sf_call'.result = "LOFR_MARK_SEEN_AND_DO_SHOW"
                  /\ ctx'.match_count = ctx.match_count + 1
                  /\ omit' = omit
                  /\ sf_pc' = "ready"
             /\ sf_call'.mr = "MR_NOT_MATCHED" =>
                  /\ sf_call'.result = "LOFR_MARK_SEEN"
                  /\ omit'.v = "LOFO_OMIT" /\ omit'.writes = omit.writes + 1
                  /\ ctx'.match_count = ctx.match_count
                  /\ sf_pc' = "ready"
             /\ sf_call'.mr = "MR_ERROR" =>
                  /\ sf_call'.result = "abort"
                  /\ sf_pc' = "aborted"
                  /\ omit' = omit
                  /\ ctx'.match_count = ctx.match_count
             /\ (stmt'.binds = stmt.binds + 1 /\ stmt'.steps = stmt.steps
                 /\ NamesFeatureDirectory(sf_call'.path))
                  => sf_call'.mr = "MR_ERROR" ) ]_vars

C11_Witness ==
    /\ sf_call.n = 2
    /\ sf_call.situation = "LOFS_BLOB"
    /\ sf_call.mr = "MR_NOT_MATCHED"
    /\ sf_call.result = "LOFR_MARK_SEEN"
    /\ omit = [v |-> "LOFO_OMIT", writes |-> 1]
    /\ ctx.match_count = 1
    /\ sf_pc = "ready"

C11_ErrorAborts ==
    /\ sf_call.situation = "LOFS_BLOB"
    /\ sf_call.mr = "MR_ERROR"
    /\ sf_pc = "aborted"
    /\ stmt.steps = 1

----------------------------------------------------------------------------
(* Properties of the tree walker                                           *)

\* The depth-first preorder of a forest: each entry, then what lies under it,
\* then its later siblings.
RECURSIVE Preorder(_, _)
Preorder(forest, prefix) ==
    IF forest = <<>> THEN <<>>
    ELSE <<[path |-> prefix \o forest[1].name, type |-> forest[1].type]>>
         \o Preorder(forest[1].children, prefix \o forest[1].name \o "/")
         \o Preorder(Tail(forest), prefix)

IsPrefix(p, q) == Len(p) <= Len(q) /\ SubSeq(q, 1, Len(p)) = p

WalkIsPreorder ==
    /\ wk_pc # "crashed"
    /\ IsPrefix(wk_out, Preorder(wk_tree, ""))
    /\ wk_pc = "done" => wk_out = Preorder(wk_tree, "")

\* C8. Walker preorder law: for every finite tree, trees with empty subtrees
\* included, the (path, type) pairs obtained by dereferencing the iterator
\* from begin() until it equals end() are exactly the depth-first preorder:
\* each subtree entry before its children, siblings in stored order, every
\* entry once, each path the '/'-joined names from the root.
C8_WalkerPreorder == wk_pc # "idle" => WalkIsPreorder

\* The preorder law for the trees whose root has an entry.
C8_PreorderNonEmptyRoot == (wk_pc # "idle" /\ wk_tree # <<>>) => WalkIsPreorder

C8_EmptySubtreeWalked ==
    /\ wk_pc = "done"
    /\ Len(wk_tree) = 2
    /\ wk_tree[1].type = "tree" /\ wk_tree[1].children = <<>>
    /\ Len(wk_out) = MaxNodes

\* The entries of a forest, those of its subtrees included.
RECURSIVE TotalEntries(_)
TotalEntries(forest) ==
    IF forest = <<>> THEN 0
    ELSE 1 + TotalEntries(forest[1].children) + TotalEntries(Tail(forest))

AtEnd == IteratorEq(heads, EndHeads)
\* One ++it follows each *it: the increments made so far.
Increments == IF wk_pc = "yielded" THEN Len(wk_out) - 1 ELSE Len(wk_out)

\* C30. Walker termination: for a tree whose root has an entry and that has
\* N entries in all, the iterator from begin() first equals end() after
\* exactly N increments; it equals end() exactly when its frame stack is
\* empty, and incrementing an iterator that equals end() leaves it equal to
\* end().
C30_WalkerTermination ==
    (wk_tree # <<>> /\ wk_pc \in {"at", "yielded", "done", "past_end"}) =>
        /\ Len(heads) = Len(entries_stack)
        /\ AtEnd <=> entries_stack = <<>>
        /\ AtEnd <=> (Increments = TotalEntries(wk_tree))
        /\ Increments <= TotalEntries(wk_tree)
        /\ wk_pc \in {"done", "past_end"} => AtEnd

\* C34. Dereference validity: in every reachable state of an iterator that
\* does not compare equal to end(), the top frame's cursor is below the top
\* frame's length, so operator* yields an existing entry; begin() of a tree
\* whose root has no entries compares equal to end().
C34_DereferenceValidity ==
    wk_pc \in {"at", "yielded", "done", "past_end"} =>
        /\ ~AtEnd => Dereferenceable(entries_stack, heads)
        /\ (wk_tree = <<>> /\ wk_out = <<>>) => AtEnd

\* The same for the trees whose root has an entry.
C34_ValidNonEmptyRoot == wk_tree # <<>> => C34_DereferenceValidity

\* begin() of the empty root: one frame of length 0 with its cursor at 0.
C34_WitnessEmptyRoot ==
    /\ wk_tree = <<>>
    /\ wk_pc = "at"
    /\ entries_stack = << <<>> >>
    /\ heads = <<0>>
    /\ ~AtEnd

C30_Witness ==
    /\ wk_pc = "past_end"
    /\ Len(wk_tree) = 2
    /\ wk_tree[1].children # <<>>
    /\ TotalEntries(wk_tree) = MaxNodes
    /\ Len(wk_out) = MaxNodes
    /\ AtEnd

----------------------------------------------------------------------------
(* Properties of a session of several shims                                *)

\* C31. One helper per session: for any interleaving of two or more shims of
\* one session, at most one helper is exec'd, the shims that are connected
\* are connected to that one helper, and a shim whose first connect succeeds
\* never forks.
C31_OneHelperPerSession ==
    /\ Cardinality(ss_execs) <= 1
    /\ \A s \in DOMAIN ss_conn : ss_conn[s] # 0 => ss_execs = {ss_conn[s]}
    /\ \A s \in DOMAIN ss_first : ss_first[s] = "ok" => ss_forks[s] = 0

\* A shim whose first connect succeeds never forks, and a shim forks at most
\* once; the helpers exec'd are those of shims whose first connect failed.
C31_ForkOnlyAfterFailedConnect ==
    /\ \A s \in DOMAIN ss_first :
          /\ ss_first[s] = "ok" => (ss_forks[s] = 0 /\ ss_grandchild[s] = "none")
          /\ ss_forks[s] <= 1
    /\ \A s \in ss_execs : ss_first[s] = "failed"

\* Two shims found no listener, both spawned, and they hold connections to
\* different helpers.
C31_WitnessTwoHelpers ==
    /\ ss_execs = {1, 2}
    /\ ss_conn = <<1, 2>>
    /\ ss_pc = <<"connected", "connected">>

\* The second shim started after the first one's helper was listening.
C31_WitnessShared ==
    /\ ss_first = <<"failed", "ok">>
    /\ ss_conn = <<1, 1>>
    /\ ss_execs = {1}
    /\ ss_forks = <<1, 0>>

----------------------------------------------------------------------------
(* Properties of the wrappers over native handles                          *)

\* The wrappers that own handle h.
Owners(h) == {w \in DOMAIN ob_wrapped : ob_live[w] /\ ob_wrapped[w] = h}

\* No handle is released twice, no two live wrappers own one handle, a
\* moved-from wrapper owns none, and once every wrapper is destroyed every
\* handle handed out has been released.
SingleRelease ==
    /\ \A h \in DOMAIN ob_released : ob_released[h] <= 1
    /\ \A h \in ob_acquired : Cardinality(Owners(h)) <= 1
    /\ \A h \in ob_acquired : ob_released[h] = 1 => Owners(h) = {}
    /\ \A w \in DOMAIN ob_moved : ob_moved[w] => ob_wrapped[w] = 0
    /\ (\A w \in DOMAIN ob_live : ~ob_live[w]) =>
          \A h \in ob_acquired : ob_released[h] = 1

\* An assignment has released the handle its target owned.
AssignmentReleases ==
    (ob_last.op \in {"copy_assign", "move_assign"} /\ ob_last.old # 0) =>
        ob_released[ob_last.old] >= 1

\* C36. Single release of native handles: after any sequence of
\* copy-construction, copy-assignment, move-construction, move-assignment and
\* destruction of Tree, Blob, Commit, Tag and Object wrappers, every native
\* handle that was acquired is released exactly once: no two live wrappers
\* own the same handle, a moved-from wrapper owns none, and an assignment
\* releases the handle the target previously owned.
C36_SingleRelease == SingleRelease /\ AssignmentReleases

\* The same for the sequences in which no assignment operator has run:
\* constructions and destructions alone.
C36_WithoutAssignment == ~ob_assigned => C36_SingleRelease

\* Two wrappers, one a copy-assignment of the other, were both destroyed: the
\* handle of the source was freed twice.
C36_WitnessDoubleFree ==
    /\ ob_assigned
    /\ \A w \in DOMAIN ob_live : ~ob_live[w]
    /\ \E h \in ob_acquired : ob_released[h] = 2

\* A move-assignment left the handle of its target with no owner and no
\* release.
C36_WitnessLeak ==
    /\ ob_last.op = "move_assign"
    /\ ob_last.old # 0
    /\ ob_released[ob_last.old] = 0
    /\ Owners(ob_last.old) = {}

\* Copies and moves by construction alone, all destroyed: every handle
\* released once.
C36_WitnessConstructions ==
    /\ ~ob_assigned
    /\ ob_acquired = Handles
    /\ \A w \in DOMAIN ob_live : ~ob_live[w]
    /\ \A h \in Handles : ob_released[h] = 1
    /\ ob_last.op = "destroy"

----------------------------------------------------------------------------
(* Properties of the blob iterator                                         *)

\* The sequence the tree walker yields from an iterator: each entry it is
\* at, then those of the iterator incremented, until it equals end().
RECURSIVE WalkFrom(_, _)
WalkFrom(st, hd) ==
    IF IteratorEq(hd, EndHeads) \/ ~Dereferenceable(st, hd) THEN <<>>
    ELSE <<[path |-> Deref(st, hd).rel_path, type |-> Deref(st, hd).type]>>
         \o (LET next == Increment(st, hd) IN WalkFrom(next.st, next.hd))

WalkOf(tree_) == LET it == _enter_tree(<<>>, <<>>, tree_) IN WalkFrom(it.st, it.hd)

IsBlob(e) == e.type = "blob"

\* The paths of the blob entries of a walk, in its order.
BlobProjection(walk) ==
    LET blobs == SelectSeq(walk, IsBlob)
    IN  [i \in 1 .. Len(blobs) |-> blobs[i].path]

\* The blob iterator is where the tree walker is after the entries up to the
\* last blob given out: the blobs given so far and those of the rest of the
\* walk make up the projection of the whole walk.
BlobsAreProjection ==
    /\ bi_pc # "crashed"
    /\ IsPrefix(bi_out, BlobProjection(WalkOf(bi_tree)))
    /\ bi_pc = "done" => bi_out = BlobProjection(WalkOf(bi_tree))
    /\ bi_pc \in {"at", "yielded", "done"} =>
          /\ BlobIteratorEq(bi_hd, EndHeads) <=> bi_hd = <<>>
          /\ ~BlobIteratorEq(bi_hd, EndHeads) =>
                /\ Dereferenceable(bi_st, bi_hd)
                /\ Deref(bi_st, bi_hd).type = "blob"
                /\ current_blob = Deref(bi_st, bi_hd).rel_path
          /\ bi_pc = "at" =>
                bi_out \o BlobProjection(WalkFrom(bi_st, bi_hd))
                    = BlobProjection(WalkOf(bi_tree))

\* C37. Blob iterator is the blob projection of the tree walker: for every
\* finite tree, the sequence yielded by the blob iterator from begin() to
\* end() is exactly the subsequence of blob-typed entries of the tree
\* walker's preorder sequence, in the same order, with tree entries skipped;
\* the blob iterator equals end exactly when its underlying tree iterator
\* equals end, also when the tree ends with non-blob entries or contains no
\* blob.
C37_BlobProjection == bi_pc # "idle" => BlobsAreProjection

\* The same for the trees whose root has an entry.
C37_ProjectionNonEmptyRoot == (bi_pc # "idle" /\ bi_tree # <<>>) => BlobsAreProjection

\* The walk of a tree whose root has an entry is its preorder.
C37_WalkIsPreorder == bi_tree # <<>> => WalkOf(bi_tree) = Preorder(bi_tree, "")

\* begin() on the root without entries: _advance_to_blob read the type of an
\* entry of an empty frame.
C37_WitnessEmptyRoot ==
    /\ bi_tree = <<>>
    /\ bi_pc = "crashed"

\* A tree with a blob under a subtree, ending with a subtree without blobs:
\* the loop ended after both blobs.
C37_WitnessTrailingTree ==
    /\ bi_pc = "done"
    /\ Len(bi_tree) = 3
    /\ bi_tree[1].type = "tree" /\ Len(bi_tree[1].children) = 1
    /\ bi_tree[2].type = "blob"
    /\ bi_tree[3].type = "tree"
    /\ bi_out = <<"a/a", "b">>

\* A tree of subtrees alone: begin() equals end() and nothing is given out.
C37_WitnessNoBlob ==
    /\ bi_pc = "done"
    /\ TotalEntries(bi_tree) = MaxNodes
    /\ bi_out = <<>>

====
